---- MODULE Spec2Model ----
(***************************************************************************)
(* Verification model of three cores of the stract search engine:          *)
(*   - the de-duplicating top-N BucketCollector                            *)
(*       (crates/core/src/collector/top_docs.rs),                          *)
(*   - the segment life cycle of InvertedIndex                             *)
(*       (core/src/inverted_index.rs),                                     *)
(*   - the replicated key-value store (DHT) as exercised by the tests of   *)
(*       crates/core/src/ampc/dht/mod.rs.                                  *)
(* Each core has its own specifications (SpecCollector; SpecIndex and      *)
(* SpecMerge; SpecDht and SpecDhtSeq); the variables of the other cores    *)
(* stay at their initial values.                                           *)
(***************************************************************************)
EXTENDS Integers, Sequences, FiniteSets, TLC

VARIABLES
    \* ---- BucketCollector ----
    config,        \* CollectorConfig: the four penalties
    top_n,         \* BucketCollector.top_n
    documents,     \* BucketCollector.documents: the heap, a set of ScoredDoc
    buckets,       \* BucketCount.buckets: one map from hash to count
    res,           \* into_sorted_vec: res
    simhash_dups,  \* into_sorted_vec: simhash_dups
    simhash,       \* into_sorted_vec: the simhash table
    de_rank,       \* into_sorted_vec: the de_rank_similar argument
    cpc,           \* position of the collector: "insert", "pop" or "done"
    inserted,      \* history: the documents passed to insert
    emitted,       \* history: one record per element of res
    \* ---- InvertedIndex (index 1 is `self`, index 2 is `other` of merge) ----
    index,         \* per index: open, pending (writer), meta (meta.json),
                   \*   reader (segments of the reader's searcher), files (directory)
    segDocs,       \* the documents of every segment written so far
    nextSeg,       \* the id of the next segment to be written
    searcher,      \* a Searcher handed out by reader.searcher(), not yet used
    outcome,       \* what the last call on an index returned and found
    merged,        \* history: the documents of both indexes at merge(other)
    committed,     \* history: the documents of self inserted before its last completed commit
    \* ---- DHT: one shard, one table ----
    leader,        \* the node that won the election after raft.initialize
    log,           \* the Raft log of the shard: a sequence of Set requests
    matchIndex,    \* per node: how much of the log the node stores
    commitIndex,   \* the last log index stored on a quorum
    applied,       \* per node: the last log index applied to its state machine
    db,            \* per node: the table of its state machine
    clients,       \* the test tasks that issue requests
    client,        \* per task: position, node, key, value and log index of its request
    acked,         \* history: per key, the log index of the last set that has returned
    ground_truth,  \* proptest_chaos: ground_truth
    getResult,     \* the outcome of the last get
    members,       \* the nodes of the Raft group of the shard
    joinCommit,    \* history: per node, the commit index when it joined
    node_state,    \* per node: "up", "down" after a crash, "restarted" after the re-join
    \* ---- TopDocs: the pages of one query on one index ----
    segment_readers, \* the matching documents of every segment of the index
    ranker,        \* LocalRanker: num_results, de_rank_similar, collector_config
    pages,         \* per page of the query: the pointers the last search returned
    unreadable,    \* the documents whose stored document searcher.doc cannot load
    search,        \* LocalSearcher::search: its position, and what it returned
    \* ---- DHT: the tables of a shard with one node ----
    tables,        \* the state machine: per table and key, the set of at most one value
    stream,        \* client.stream(table): the cursor and what it has yielded
    kv_out,        \* what the last get or batch_get returned
    \* ---- live index: the replicas of the shards of a cluster ----
    li_status,     \* per replica: "off", "setup" (InSetup) or "ready" (Ready)
    li_view,       \* per replica: what the cluster advertises: "none", "setup", "ready"
    li_inserts,    \* per replica: the pages indexed and not yet committed
    li_index,      \* per replica: the committed pages, which a search sees
    li_out,        \* what the last IndexWebpages, search or setup did
    \* ---- retrieve_websites: the primary image of a retrieved page ----
    img_query,     \* query.simple_terms()
    img_stored,    \* doc.primary_image as stored: at most one StoredPrimaryImage
    img_out,       \* doc.primary_image as returned
    \* ---- IndexManager::run ----
    now,           \* Utc::now()
    last_commit,   \* the three timers of the loop
    last_prune,
    last_compact,
    has_inserts,   \* index.has_inserts()
    im_phase,      \* "awake" before an iteration, "sleep" after it
    im_did,        \* what the last iteration invoked
    inserted_at,   \* history: when the oldest page in flight was inserted, if any
    \* ---- parse_duration ----
    dur_in,        \* the string, as the sequence of its characters
    dur_out,       \* what parse_duration returned
    \* ---- TopSegmentCollector: the segment collectors of one search ----
    seg_top,       \* TopDocs.max_docs: at most one MaxDocsConsidered
    seg_collectors, \* the collectors for_segment has built, in the order of the segments
    \* ---- LocalSearcher::search on a live index ----
    live_segments, \* InnerIndex: the segments of the reader, each the sequence of its documents
    live_search,   \* LocalSearcher::search: its position, its pointers and what it returned
    live_inserted, \* the number of pages inserted into the live index so far
    \* ---- feed::parser::parse_rss ----
    rss_feed,      \* the feed: the children of the channel and of every item
    rss,           \* the locals of parse_rss, the reader position and the result
    \* ---- WarcFile ----
    warc_bytes,    \* the records of the file, as next_raw finds them
    warc           \* WarcFile: the position, num_reads and what next returned

cvars == <<config, top_n, documents, buckets, res, simhash_dups, simhash,
           de_rank, cpc, inserted, emitted>>

ivars == <<index, segDocs, nextSeg, searcher, outcome, merged, committed>>

dvars == <<leader, log, matchIndex, commitIndex, applied, db, clients, client,
           acked, ground_truth, getResult, members, joinCommit, node_state>>

pvars == <<segment_readers, ranker, pages, unreadable, search>>

kvars == <<tables, stream, kv_out>>

lvars == <<li_status, li_view, li_inserts, li_index, li_out>>

gvars == <<img_query, img_stored, img_out>>

mvars == <<now, last_commit, last_prune, last_compact, has_inserts, im_phase,
           im_did, inserted_at>>

tvars == <<dur_in, dur_out>>

svars == <<seg_top, seg_collectors>>

\* the variables of the cores added last
qvars == <<live_segments, live_search, live_inserted>>

fvars == <<rss_feed, rss>>

wvars == <<warc_bytes, warc>>

yvars == <<svars, qvars, fvars, wvars>>

\* the variables of the cores added to the four above
xvars == <<kvars, lvars, gvars, mvars, tvars, yvars>>

\* every variable but those of kvars
notK == <<cvars, ivars, dvars, pvars, lvars, gvars, mvars, tvars, yvars>>

\* every variable but those of lvars
notL == <<cvars, ivars, dvars, pvars, kvars, gvars, mvars, tvars, yvars>>

\* every variable but those of gvars
notG == <<cvars, ivars, dvars, pvars, kvars, lvars, mvars, tvars, yvars>>

\* every variable but those of mvars
notM == <<cvars, ivars, dvars, pvars, kvars, lvars, gvars, tvars, yvars>>

\* every variable but those of tvars
notT == <<cvars, ivars, dvars, pvars, kvars, lvars, gvars, mvars, yvars>>

\* the variables of the cores before the last ones
zvars == <<cvars, ivars, dvars, pvars, kvars, lvars, gvars, mvars, tvars>>

\* every variable but those of svars
notS == <<zvars, qvars, fvars, wvars>>

\* every variable but those of qvars
notQ == <<zvars, svars, fvars, wvars>>

\* every variable but those of fvars
notF == <<zvars, svars, qvars, wvars>>

\* every variable but those of wvars
notW == <<zvars, svars, qvars, fvars>>

vars == <<cvars, ivars, dvars, pvars, xvars>>

(***************************************************************************)
(* Bounds                                                                  *)
(***************************************************************************)
MaxDocs == 3    \* documents inserted into one collector
MaxTopN == 3    \* largest top_n of a collector
MaxSegs == 6    \* segments written in one run
TopLimit == 2   \* limit of the collector of an index search
MaxLog == 3     \* requests written to the shard in one run

\* pages 0..MaxPage of a query are searched
MaxPage == 2

\* documents inserted into the collector whose loop is followed turn by turn
MaxInserted == 4

\* the clock of the index manager runs from 0 to MaxNow
MaxNow == 7

\* at most MaxUnreadable stored documents cannot be loaded
MaxUnreadable == 1

\* the keys of a table are 0..MaxKey
MaxKey == 1

(***************************************************************************)
(* Small helpers                                                           *)
(***************************************************************************)
Take(s, n) == SubSeq(s, 1, IF n < Len(s) THEN n ELSE Len(s))

Range(s) == {s[i] : i \in 1..Len(s)}

Min(a, b) == IF a < b THEN a ELSE b

\* a / b as the record [n |-> a, d |-> b] with d > 0
RatLeq(x, y) == x.n * y.d <= y.n * x.d
RatEq(x, y) == x.n * y.d = y.n * x.d
RatLess(x, y) == x.n * y.d < y.n * x.d

(***************************************************************************)
(* Documents of the collector: Hashes {site, title, url, url_without_tld,  *)
(* simhash}, the DocId and the raw score (SegmentDoc).                     *)
(***************************************************************************)
SegmentDoc(id, site, url, url_without_tld, title, sh, score) ==
    [id |-> id, site |-> site, url |-> url, url_without_tld |-> url_without_tld,
     title |-> title, simhash |-> sh, score |-> score]

\* The documents the collector is fed with.  Ids 1..3 are the documents of
\* tests::simhash_dedup, 4..6 those of tests::same_key_de_prioritised (all
\* four hashes of a document equal, scores scaled by 10); the others share
\* one key on one axis, carry the hash 0, or are duplicates of one URL.
DocPool ==
    { SegmentDoc(1, 1, 1, 1, 1, 7, 30),
      SegmentDoc(2, 2, 2, 2, 2, 7, 31),
      SegmentDoc(3, 3, 3, 3, 3, 1, 50),
      SegmentDoc(4, 1, 1, 1, 1, 2, 30),
      SegmentDoc(5, 2, 2, 2, 2, 3, 31),
      SegmentDoc(6, 2, 2, 2, 2, 4, 50),
      SegmentDoc(7, 4, 5, 6, 8, 7, 90),
      SegmentDoc(8, 4, 9, 10, 11, 0, 30),
      SegmentDoc(9, 4, 5, 6, 12, 5, 80),
      SegmentDoc(10, 0, 0, 0, 0, 0, 40),
      SegmentDoc(11, 0, 13, 14, 0, 0, 40),
      SegmentDoc(12, 13, 5, 6, 0, 6, 70),
      SegmentDoc(13, 4, 15, 16, 17, 7, 80),
      SegmentDoc(14, 4, 18, 19, 20, 8, 31) }

HashKeys == {0} \cup UNION {{d.site, d.url, d.url_without_tld, d.title} : d \in DocPool}

\* The document of the pool with the id i
PoolDoc(i) == CHOOSE d \in DocPool : d.id = i

\* CollectorConfig values: penalties are small non-negative numbers.
Configs ==
    { [site_penalty |-> 1, title_penalty |-> 1, url_penalty |-> 1,
       url_without_tld_penalty |-> 1],
      [site_penalty |-> 1, title_penalty |-> 2, url_penalty |-> 3,
       url_without_tld_penalty |-> 0],
      [site_penalty |-> 0, title_penalty |-> 0, url_penalty |-> 0,
       url_without_tld_penalty |-> 0] }

(***************************************************************************)
(* BucketCount                                                             *)
(***************************************************************************)
\* BucketCount::adjust_score: the adjusted score raw / (1 + sum of count * penalty),
\* every count read from the one map `buckets`.
AdjustScore(b, cfg, doc) ==
    [n |-> doc.score,
     d |-> 1 + b[doc.site] * cfg.site_penalty
             + b[doc.url] * cfg.url_penalty
             + b[doc.url_without_tld] * cfg.url_without_tld_penalty
             + b[doc.title] * cfg.title_penalty]

Increment(b, k) == [b EXCEPT ![k] = @ + 1]

\* update_counts that forgets the url bucket
UpdateCountsNoUrl(b, doc) ==
    Increment(Increment(Increment(b, doc.site), doc.url_without_tld), doc.title)

\* BucketCount::update_counts: four increments of the one map, in this order.
UpdateCounts(b, doc) ==
    Increment(Increment(Increment(Increment(b, doc.site), doc.url),
                        doc.url_without_tld), doc.title)

(***************************************************************************)
(* The heap.  documents is a set of ScoredDoc [doc, adjusted_score]; the    *)
(* order of ScoredDoc compares adjusted_score alone, so which of several   *)
(* entries with the greatest adjusted_score is the max of the MinMaxHeap   *)
(* is left open.                                                           *)
(***************************************************************************)
ScoredDoc(doc, adj) == [doc |-> doc, adjusted_score |-> adj]

\* ScoredDoc::cmp
ScoredDocLeq(x, y) == RatLeq(x.adjusted_score, y.adjusted_score)

\* pop_min taken for pop_max
MinEntries(docs) == {x \in docs : \A y \in docs : ScoredDocLeq(x, y)}

\* candidates of MinMaxHeap::pop_max / peek_max_mut
MaxEntries(docs) == {x \in docs : \A y \in docs : ScoredDocLeq(y, x)}

\* no look at the best document after the counts have changed
UpdateBestDocSkipped(docs, b, cfg) == {docs}

\* BucketCollector::update_best_doc: every heap the loop can end with.
RECURSIVE UpdateBestDoc(_, _, _)
UpdateBestDoc(docs, b, cfg) ==
    IF Cardinality(docs) <= 1
    THEN {docs}
    ELSE UNION { LET adj == AdjustScore(b, cfg, best.doc)
                 IN IF RatEq(adj, best.adjusted_score)
                    THEN {docs}
                    ELSE UpdateBestDoc((docs \ {best}) \cup {ScoredDoc(best.doc, adj)},
                                       b, cfg)
                 : best \in MaxEntries(docs) }

\* simhash::Table
TableContains(t, h) == h \in t
TableInsert(t, h) == t \cup {h}

(***************************************************************************)
(* BucketCollector                                                         *)
(***************************************************************************)
EmitRecord(x, b, cfg, backfill) ==
    [id |-> x.doc.id, key |-> x.adjusted_score,
     adj |-> AdjustScore(b, cfg, x.doc), backfill |-> backfill]

\* BucketCollector::new(top_n, config)
NewCollector(n, cfg) ==
    /\ config = cfg
    /\ top_n = n
    /\ documents = {}
    /\ buckets = [k \in HashKeys |-> 0]
    /\ res = <<>>
    /\ simhash_dups = <<>>
    /\ simhash = {}
    /\ de_rank = FALSE
    /\ cpc = "insert"
    /\ inserted = {}
    /\ emitted = <<>>

\* BucketCollector::insert
Insert(doc) ==
    /\ cpc = "insert"
    /\ doc \notin inserted
    /\ Cardinality(inserted) < MaxDocs
    /\ documents' = documents \cup {ScoredDoc(doc, AdjustScore(buckets, config, doc))}
    /\ inserted' = inserted \cup {doc}
    /\ UNCHANGED <<config, top_n, buckets, res, simhash_dups, simhash, de_rank,
                   cpc, emitted>>
    /\ UNCHANGED <<ivars, dvars, pvars, xvars>>

\* the extension without take(..)
BackfillNoLimit(r, dups) == r \o dups

\* the end of into_sorted_vec: res.extend(simhash_dups.take(top_n - res.len()))
Backfill(r, dups) == r \o Take(dups, IF top_n > Len(r) THEN top_n - Len(r) ELSE 0)

BackfillRecords(e, dups, b) ==
    e \o [i \in 1..Len(dups) |-> EmitRecord(dups[i], b, config, TRUE)]

\* The state after one turn of the while loop of into_sorted_vec that leaves
\* the heap docs, the counts b, the result r and the deferred documents dups:
\* the loop goes on, or it ends and the deferred documents are appended.
LoopTurn(docs, b, r, e, dups) ==
    /\ documents' = docs
    /\ buckets' = b
    /\ simhash_dups' = dups
    /\ IF docs = {} \/ Len(r) = top_n
       THEN /\ res' = Backfill(r, [i \in 1..Len(dups) |-> dups[i].doc])
            /\ emitted' = Take(BackfillRecords(e, dups, b), Len(res'))
            /\ cpc' = "done"
       ELSE /\ res' = r
            /\ emitted' = e
            /\ cpc' = "pop"

\* BucketCollector::into_sorted_vec(de_rank_similar): entry
IntoSortedVec(flag) ==
    /\ cpc = "insert"
    /\ de_rank' = flag
    /\ simhash' = {}
    /\ IF documents = {}
       THEN /\ cpc' = "done"
            /\ UNCHANGED <<documents, buckets, res, simhash_dups, emitted>>
       ELSE /\ cpc' = "pop"
            /\ UNCHANGED <<documents, buckets, res, simhash_dups, emitted>>
    /\ UNCHANGED <<config, top_n, inserted>>
    /\ UNCHANGED <<ivars, dvars, pvars, xvars>>

\* one turn of the loop that defers a simhash duplicate
PopDuplicate ==
    /\ cpc = "pop"
    /\ \E best \in MaxEntries(documents) :
          /\ best.doc.simhash # 0 /\ de_rank
          /\ TableContains(simhash, best.doc.simhash)
          /\ LoopTurn(documents \ {best}, buckets, res, emitted,
                      Append(simhash_dups, best))
          /\ simhash' = simhash
    /\ UNCHANGED <<config, top_n, de_rank, inserted>>
    /\ UNCHANGED <<ivars, dvars, pvars, xvars>>

\* one turn of the loop that emits the popped document
PopEmit ==
    /\ cpc = "pop"
    /\ \E best \in MaxEntries(documents) :
          /\ ~(best.doc.simhash # 0 /\ de_rank /\ TableContains(simhash, best.doc.simhash))
          /\ simhash' = IF best.doc.simhash # 0 /\ de_rank
                        THEN TableInsert(simhash, best.doc.simhash)
                        ELSE simhash
          /\ LET rest == documents \ {best}
                 b == IF de_rank THEN UpdateCounts(buckets, best.doc) ELSE buckets
                 heaps == IF de_rank THEN UpdateBestDoc(rest, b, config) ELSE {rest}
             IN \E docs \in heaps :
                   LoopTurn(docs, b, Append(res, best.doc),
                            Append(emitted, EmitRecord(best, buckets, config, FALSE)),
                            simhash_dups)
    /\ UNCHANGED <<config, top_n, de_rank, inserted>>
    /\ UNCHANGED <<ivars, dvars, pvars, xvars>>

NextCollector ==
    \/ \E doc \in DocPool : Insert(doc)
    \/ \E flag \in BOOLEAN : IntoSortedVec(flag)
    \/ PopDuplicate
    \/ PopEmit

\* the documents of the collectors whose loop is followed turn by turn:
\* their raw scores differ, and so do the adjusted scores they can have at
\* the same time, so that pop_max and peek_max_mut have one candidate
LoopPool == {PoolDoc(i) : i \in {2, 3, 7, 8, 9}}

\* BucketCollector::new(top_n, config) followed by insert of the documents
\* docs: every document is pushed with the score adjust_score gives it
\* under the empty counts
InsertedCollector(n, cfg, docs) ==
    /\ config = cfg
    /\ top_n = n
    /\ documents = {ScoredDoc(doc, AdjustScore([k \in HashKeys |-> 0], cfg, doc)) :
                        doc \in docs}
    /\ buckets = [k \in HashKeys |-> 0]
    /\ res = <<>>
    /\ simhash_dups = <<>>
    /\ simhash = {}
    /\ de_rank = FALSE
    /\ cpc = "insert"
    /\ inserted = docs
    /\ emitted = <<>>

\* into_sorted_vec alone
NextIntoSortedVec ==
    \/ \E flag \in BOOLEAN : IntoSortedVec(flag)
    \/ PopDuplicate
    \/ PopEmit

(***************************************************************************)
(* The collector as a function of its input: every vector that insert of   *)
(* the documents, in any order, and into_sorted_vec can return.            *)
(***************************************************************************)
RECURSIVE SortedVecs(_, _, _, _, _, _, _, _)
\* the loop of into_sorted_vec and the extension after it, for a collector
\* with top_n = n, from the heap docs, the counts b, the result r, the
\* deferred documents dups and the simhash table t
SortedVecs(docs, b, r, dups, t, n, cfg, flag) ==
    IF docs = {} \/ Len(r) = n
    THEN {r \o Take(dups, IF n > Len(r) THEN n - Len(r) ELSE 0)}
    ELSE UNION {
        IF best.doc.simhash # 0 /\ flag /\ TableContains(t, best.doc.simhash)
        THEN SortedVecs(docs \ {best}, b, r, Append(dups, best.doc), t, n, cfg, flag)
        ELSE LET t2 == IF best.doc.simhash # 0 /\ flag
                       THEN TableInsert(t, best.doc.simhash) ELSE t
                 b2 == IF flag THEN UpdateCounts(b, best.doc) ELSE b
                 heaps == IF flag THEN UpdateBestDoc(docs \ {best}, b2, cfg)
                                  ELSE {docs \ {best}}
             IN UNION {SortedVecs(h, b2, Append(r, best.doc), dups, t2, n, cfg, flag) :
                          h \in heaps}
        : best \in MaxEntries(docs)}

\* BucketCollector::new(n, cfg), insert of every document of the set ds, and
\* into_sorted_vec(flag).  No count changes before into_sorted_vec, so
\* insert stores every document with its raw score.
Collected(ds, n, cfg, flag) ==
    LET zero == [k \in HashKeys |-> 0]
    IN SortedVecs({ScoredDoc(d, AdjustScore(zero, cfg, d)) : d \in ds},
                  zero, <<>>, <<>>, {}, n, cfg, flag)


(***************************************************************************)
(* TopDocs: one collector per segment, merge_fruits, and the pages of a    *)
(* query.  A segment is the set of its documents that match the query.     *)
(***************************************************************************)
NotSearched == <<[none |-> TRUE]>>

\* the indexes searched: the documents of each segment
Layouts ==
    { <<{PoolDoc(3), PoolDoc(5)}, {PoolDoc(8), PoolDoc(10)}>>,
      <<{PoolDoc(4), PoolDoc(11), PoolDoc(12)}, {PoolDoc(7)}>>,
      <<{PoolDoc(7), PoolDoc(9), PoolDoc(13), PoolDoc(12)}>> }

\* CollectorConfig.max_docs_considered
MaxDocsConsidered == {4, 8}

NumResults == {1, 2}

\* TopSegmentCollector::collect with is_done: the documents of the segment
\* come in the order of their ids and only the first max_docs are inserted
Collect(seg, max_docs) ==
    {d \in seg : Cardinality({e \in seg : e.id < d.id}) < max_docs}

\* TopDocs::for_segment, collect for every document, and harvest
Harvest(seg, n, offset, cfg, total_docs, num_segments) ==
    Collected(Collect(seg, total_docs \div num_segments), n + offset, cfg, TRUE)

\* docs.into_iter().skip(offset).take(n)
SkipTake(docs, offset, n) ==
    SubSeq(docs, offset + 1, Min(offset + n, Len(docs)))

\* TweakedScoreTopCollector::merge_fruits
MergeFruits(segment_fruits, n, offset, cfg, flag) ==
    {SkipTake(docs, offset, n) :
        docs \in Collected(UNION {Range(segment_fruits[i]) : i \in DOMAIN segment_fruits},
                           n + offset, cfg, flag)}

\* the fruits the segment collectors of one search can return
SegmentFruits(segs, n, offset, cfg, total_docs) ==
    LET fruit(i) == Harvest(segs[i], n, offset, cfg, total_docs, Len(segs))
    IN {f \in [DOMAIN segs -> UNION {fruit(i) : i \in DOMAIN segs}] :
           \A i \in DOMAIN segs : f[i] \in fruit(i)}

\* every vector a search with top_n = n and the offset can return
TopDocsOf(segs, r, n, offset) ==
    UNION {MergeFruits(f, n, offset, r.collector_config, r.de_rank_similar) :
              f \in SegmentFruits(segs, n, offset, r.collector_config,
                                  r.max_docs_considered)}

\* an index and a LocalSearcher on it
NewSearcher(segs, num_results, de_rank_similar, cfg, max_docs_considered) ==
    /\ segment_readers = segs
    /\ ranker = [num_results |-> num_results, de_rank_similar |-> de_rank_similar,
                 collector_config |-> cfg,
                 max_docs_considered |-> max_docs_considered]
    /\ pages = [p \in 0..MaxPage |-> NotSearched]
    /\ unreadable = {}
    /\ search = [pc |-> "idle"]

\* LocalSearcher::search_initial for the page p of the query:
\* LocalSearcher::ranker, the segment collectors, merge_fruits
SearchPage(p) ==
    /\ segment_readers # <<>>
    /\ \E docs \in TopDocsOf(segment_readers, ranker, ranker.num_results,
                              p * ranker.num_results) :
          pages' = [pages EXCEPT ![p] = docs]
    /\ UNCHANGED <<segment_readers, ranker, unreadable, search>>
    /\ UNCHANGED <<cvars, ivars, dvars, xvars>>

NextPages ==
    \E p \in 0..MaxPage : SearchPage(p)

(***************************************************************************)
(* LocalSearcher::search.  A pointer is modelled by the document it        *)
(* addresses; searcher.doc(address) fails for the documents of unreadable. *)
(***************************************************************************)
Ok(v) == [kind |-> "ok", value |-> v]
Err == [kind |-> "err"]
Panic == [kind |-> "panic"]

\* InvertedIndex::retrieve_ranking_websites: searcher.doc(..)? for every pointer
RetrieveRankingWebsites(pointers, bad) ==
    IF \E i \in 1..Len(pointers) : pointers[i] \in bad THEN Err ELSE Ok(pointers)

\* InvertedIndex::retrieve_websites: retrieve_doc, filter_map(|res| res.ok())
RetrieveWebsites(websites, bad) ==
    Ok(SelectSeq(websites, LAMBDA w : w \notin bad))

\* itertools zip_eq: panics when the lengths differ
ZipEq(a, b) == IF Len(a) = Len(b) THEN Ok(a) ELSE Panic

\* the stored document of d can no longer be loaded
DocFails(d) ==
    /\ d \in UNION Range(segment_readers)
    /\ d \notin unreadable
    /\ Cardinality(unreadable) < MaxUnreadable
    /\ unreadable' = unreadable \cup {d}
    /\ UNCHANGED <<segment_readers, ranker, pages, search>>
    /\ UNCHANGED <<cvars, ivars, dvars, xvars>>

\* LocalSearcher::search up to the return of search_initial(query, true)
SearchInitial(p) ==
    /\ segment_readers # <<>>
    /\ search.pc \in {"idle", "done"}
    /\ \E pointers \in TopDocsOf(segment_readers,
                                  [ranker EXCEPT !.de_rank_similar = TRUE],
                                  ranker.num_results, p * ranker.num_results) :
          LET websites == RetrieveRankingWebsites(pointers, unreadable)
          IN search' = IF websites.kind = "ok"
                       THEN [pc |-> "retrieve", hits |-> pointers,
                             websites |-> websites.value]
                       ELSE [pc |-> "done", hits |-> pointers, result |-> websites]
    /\ UNCHANGED <<segment_readers, ranker, pages, unreadable>>
    /\ UNCHANGED <<cvars, ivars, dvars, xvars>>

\* LocalSearcher::search from retrieve_websites to its return
SearchRetrieve ==
    /\ search.pc = "retrieve"
    /\ LET webpages == RetrieveWebsites(search.websites, unreadable)
           zipped == ZipEq(webpages.value, search.websites)
           retrieved_sites == RetrieveWebsites(zipped.value, unreadable)
       IN search' = [pc |-> "done", hits |-> search.hits,
                     result |-> IF zipped.kind = "ok" THEN retrieved_sites ELSE zipped]
    /\ UNCHANGED <<segment_readers, ranker, pages, unreadable>>
    /\ UNCHANGED <<cvars, ivars, dvars, xvars>>

NextSearch ==
    \/ \E d \in DocPool : DocFails(d)
    \/ \E p \in 0..MaxPage : SearchInitial(p)
    \/ SearchRetrieve

(***************************************************************************)
(* InvertedIndex                                                           *)
(***************************************************************************)
\* Option::None
None == [none |-> TRUE]

\* merge(mut self, mut other)
Self == 1
Other == 2
Indices == {Self, Other}


\* Webpages: the url, and the terms a query can match.
Webpage(id, url, terms) == [id |-> id, url |-> url, terms |-> terms]

\* The webpages of tests::merge (two pages of one URL) and a page below
\* that URL.
Pages ==
    { Webpage(1, "https://www.example.com", {"website"}),
      Webpage(2, "https://www.example.com", {"website"}),
      Webpage(3, "https://www.example.com/page", {"website", "runner"}) }

\* the page of a segment that is in the directory before open()
StoredPage == Webpage(4, "https://www.dr.dk", {"news"})

Queries == {"website"}

Urls == {"https://www.example.com", "https://www.example.com/page"}

\* Tokenizer::default().token_stream(url)
Tokenize(url) ==
    CASE url = "https://www.example.com" -> <<"https", "www", "example", "com">>
      [] url = "https://www.example.com/page" -> <<"https", "www", "example", "com", "page">>
      [] OTHER -> <<"https", "www", "dr", "dk">>

\* tantivy::query::PhraseQuery: the terms occur in the field, adjacent and in order
PhraseMatch(terms, field) ==
    \E off \in 0..(Len(field) - Len(terms)) :
        \A k \in 1..Len(terms) : field[off + k] = terms[k]

DocsOf(segs) == UNION {segDocs[x] : x \in segs}

NumDocs(x) == Cardinality(segDocs[x])

\* The documents a Searcher over the segments segs can address: one per
\* segment and stored document.
Addresses(segs) == UNION {{<<x, d>> : d \in segDocs[x]} : x \in segs}

\* InvertedIndex::open on a directory that holds the segments meta
Open(meta) == [open |-> TRUE, pending |-> {}, meta |-> meta, reader |-> meta,
               files |-> meta]

\* an index that was moved into merge, or never opened
Closed == [open |-> FALSE, pending |-> {}, meta |-> {}, reader |-> {}, files |-> {}]

\* the indexes at the start; metas: the segments their directories hold
OpenIndexes(first, second) ==
    /\ index = [i \in Indices |-> IF i = Self THEN first ELSE second]
    /\ segDocs = [[x \in 1..MaxSegs |-> {}] EXCEPT ![1] = {StoredPage}]
    /\ nextSeg = 2
    /\ searcher = None
    /\ outcome = [op |-> "open"]
    /\ merged = None
    /\ committed = DocsOf(first.meta)

\* InvertedIndex::insert
IndexInsert(i, page) ==
    /\ index[i].open
    /\ page \notin UNION {segDocs[x] : x \in 1..MaxSegs}
    /\ \A j \in Indices : page \notin index[j].pending
    /\ index' = [index EXCEPT ![i].pending = @ \cup {page}]
    /\ outcome' = [op |-> "insert"]
    /\ UNCHANGED <<segDocs, nextSeg, searcher, merged, committed>>
    /\ UNCHANGED <<cvars, dvars, pvars, xvars>>

\* commit that forgets reader.reload()
CommitStateNoReload(x, s) ==
    IF x.pending = {}
    THEN x
    ELSE [x EXCEPT !.pending = {}, !.meta = @ \cup {s}, !.files = @ \cup {s}]

\* InvertedIndex::commit on the index state x; the pending documents, if
\* any, become segment s.  writer.commit(), then reader.reload().
CommitState(x, s) ==
    IF x.pending = {}
    THEN [x EXCEPT !.reader = x.meta]
    ELSE [x EXCEPT !.pending = {}, !.meta = @ \cup {s}, !.files = @ \cup {s},
                   !.reader = x.meta \cup {s}]

\* InvertedIndex::commit
Commit(i) ==
    /\ index[i].open
    /\ index[i].pending # {} => nextSeg <= MaxSegs
    /\ index' = [index EXCEPT ![i] = CommitState(@, nextSeg)]
    /\ segDocs' = IF index[i].pending # {}
                  THEN [segDocs EXCEPT ![nextSeg] = index[i].pending]
                  ELSE segDocs
    /\ nextSeg' = IF index[i].pending # {} THEN nextSeg + 1 ELSE nextSeg
    /\ committed' = IF i = Self THEN committed \cup index[i].pending ELSE committed
    /\ outcome' = [op |-> "commit"]
    /\ UNCHANGED <<searcher, merged>>
    /\ UNCHANGED <<cvars, dvars, pvars, xvars>>

\* The reader of open() (reader_builder with the default reload policy)
\* reloads by itself when meta.json has changed.
ReaderReload(i) ==
    /\ index[i].open
    /\ index[i].reader # index[i].meta
    /\ index' = [index EXCEPT ![i].reader = index[i].meta]
    /\ UNCHANGED <<segDocs, nextSeg, searcher, outcome, merged, committed>>
    /\ UNCHANGED <<cvars, dvars, pvars, xvars>>

\* a search that asks the reader again when it runs
LiveSnapshot(sr) == index[sr.i].reader

\* The segments of a Searcher are those of the reader when it was handed out.
Snapshot(sr) == sr.segs

\* search_initial, first half: self.reader.searcher()
SearcherAcquire(i, q) ==
    /\ index[i].open
    /\ searcher = None
    /\ searcher' = [i |-> i, query |-> q, segs |-> index[i].reader,
                    acquired |-> DocsOf(index[i].reader),
                    committed |-> committed]
    /\ UNCHANGED <<index, segDocs, nextSeg, outcome, merged, committed>>
    /\ UNCHANGED <<cvars, dvars, pvars, xvars>>

\* search_initial, second half: searcher.search(query, &(Count, collector)),
\* the collector keeping TopLimit of the matching documents.
SearchRun ==
    /\ searcher # None
    /\ index[searcher.i].open
    /\ LET matching == {a \in Addresses(Snapshot(searcher)) :
                            searcher.query \in a[2].terms}
       IN \E top \in SUBSET matching :
            /\ Cardinality(top) = Min(TopLimit, Cardinality(matching))
            /\ outcome' = [op |-> "search", i |-> searcher.i,
                           query |-> searcher.query,
                           num_websites |-> Cardinality(matching),
                           top_websites |-> {a[2] : a \in top},
                           visible |-> DocsOf(Snapshot(searcher)),
                           acquired |-> searcher.acquired,
                           committed |-> searcher.committed,
                           committed_now |-> committed]
    /\ searcher' = None
    /\ UNCHANGED <<index, segDocs, nextSeg, merged, committed>>
    /\ UNCHANGED <<cvars, dvars, pvars, xvars>>

\* get_webpage: a PhraseQuery of the tokens of url on the url field, and
\* TopDocs::with_limit(1).  Of the phrase matches a shorter url field
\* scores higher; equal fields score the same and either may come first.
GetWebpage(i, url) ==
    /\ index[i].open
    /\ LET matching == {a \in Addresses(index[i].reader) :
                            PhraseMatch(Tokenize(url), Tokenize(a[2].url))}
           best == {a \in matching : \A b \in matching :
                        Len(Tokenize(a[2].url)) <= Len(Tokenize(b[2].url))}
       IN \/ /\ matching = {}
             /\ outcome' = [op |-> "get_webpage", i |-> i, url |-> url,
                            page |-> None, committed |-> committed]
          \/ \E a \in best :
                outcome' = [op |-> "get_webpage", i |-> i, url |-> url,
                            page |-> a[2], committed |-> committed]
    /\ UNCHANGED <<index, segDocs, nextSeg, searcher, merged, committed>>
    /\ UNCHANGED <<cvars, dvars, pvars, xvars>>

\* SegmentMergeCandidate
SegmentMergeCandidate(n, segs) == [num_docs |-> n, segments |-> segs]

\* as many candidates as segments are allowed, and one more
NumCandidatesAll(max_num_segments) == max_num_segments + 1

\* let num_segments = (max_num_segments + 1) / 2
NumCandidates(max_num_segments) == (max_num_segments + 1) \div 2

\* segments.sort_by_key(|b| Reverse(b.num_docs())): the orders of segs with
\* the larger segments first
SortedByNumDocs(segs) ==
    {o \in [1..Cardinality(segs) -> segs] :
        /\ \A a, b \in 1..Cardinality(segs) : a # b => o[a] # o[b]
        /\ \A a, b \in 1..Cardinality(segs) : a < b => NumDocs(o[a]) >= NumDocs(o[b])}

\* every segment goes to the first candidate
FirstCandidate(cands) == 1

\* min_by(|a, b| a.num_docs.cmp(&b.num_docs)): the first of the smallest
BestCandidate(cands) ==
    CHOOSE b \in 1..Len(cands) :
        \A c \in 1..Len(cands) :
            \/ cands[b].num_docs < cands[c].num_docs
            \/ cands[b].num_docs = cands[c].num_docs /\ b <= c

RECURSIVE AssignSegments(_, _)
\* for segment in segments { best_candidate ... push(segment) }
AssignSegments(order, cands) ==
    IF order = <<>>
    THEN cands
    ELSE LET segment == Head(order)
             best == BestCandidate(cands)
         IN AssignSegments(Tail(order),
                [cands EXCEPT ![best] =
                    SegmentMergeCandidate(@.num_docs + NumDocs(segment),
                                          Append(@.segments, segment))])

NonEmpty(merge) == merge.segments # <<>>

RECURSIVE WriterMerge(_, _, _)
\* self.writer.merge(&segment_ids).wait() for every candidate: the merged
\* segments are written as first, first + 1, ...
WriterMerge(sd, merge_segments, first) ==
    IF merge_segments = <<>>
    THEN sd
    ELSE WriterMerge([sd EXCEPT ![first] =
                          UNION {sd[x] : x \in Range(Head(merge_segments).segments)}],
                     Tail(merge_segments), first + 1)

\* InvertedIndex::merge_into_max_segments.  kept: the segments of which
\* remove_file failed (its result is dropped by .ok()).
MergeIntoMaxSegments(i, max_num_segments) ==
    /\ index[i].open
    /\ max_num_segments > 0
    /\ LET segments == index[i].meta
       IN IF Cardinality(segments) <= max_num_segments
          THEN /\ outcome' = [op |-> "merge_into_max_segments", i |-> i,
                              max_num_segments |-> max_num_segments,
                              before |-> segments, after |-> segments,
                              files_before |-> index[i].files,
                              docs_before |-> DocsOf(segments),
                              docs_after |-> DocsOf(segments),
                              removed |-> {}]
               /\ UNCHANGED <<index, segDocs, nextSeg>>
          ELSE \E order \in SortedByNumDocs(segments), kept \in SUBSET segments :
               \E merge_segments \in
                     {SelectSeq(AssignSegments(order,
                          [b \in 1..NumCandidates(max_num_segments) |->
                              SegmentMergeCandidate(0, <<>>)]), NonEmpty)} :
                 LET n == Len(merge_segments)
                     new == nextSeg..(nextSeg + n - 1)
                     docs == WriterMerge(segDocs, merge_segments, nextSeg)
                     after == [index[i] EXCEPT
                                 !.meta = new,
                                 !.files = (@ \ (segments \ kept)) \cup new]
                 IN /\ nextSeg + n - 1 <= MaxSegs
                    /\ segDocs' = docs
                    /\ nextSeg' = nextSeg + n
                    /\ index' = [index EXCEPT ![i] = after]
                    /\ outcome' = [op |-> "merge_into_max_segments", i |-> i,
                                   max_num_segments |-> max_num_segments,
                                   before |-> segments, after |-> new,
                                   files_before |-> index[i].files,
                                   docs_before |-> DocsOf(segments),
                                   docs_after |-> UNION {docs[x] : x \in new},
                                   removed |-> segments \ kept]
    /\ UNCHANGED <<searcher, merged, committed>>
    /\ UNCHANGED <<cvars, dvars, pvars, xvars>>

\* a merge that takes no segment of other
MovedSegmentsNone(ids, other_segments) == {}

\* for segment in other_meta.segments { if ids.contains(&segment.id()) { continue; } ... }
MovedSegments(ids, other_segments) == {x \in other_segments : x \notin ids}

\* InvertedIndex::merge.  Both commit, the files of other's segments are
\* renamed into the directory of self (fs::rename replaces a file of that
\* name), meta.json is written, other's directory is removed and self is
\* opened again.
Merge ==
    /\ index[Self].open /\ index[Other].open
    /\ searcher = None
    /\ LET s2 == nextSeg
           other == CommitState(index[Other], s2)
           s1 == IF index[Other].pending # {} THEN nextSeg + 1 ELSE nextSeg
           self == CommitState(index[Self], s1)
           docs2 == IF index[Other].pending # {}
                    THEN [segDocs EXCEPT ![s2] = index[Other].pending]
                    ELSE segDocs
           docs == IF index[Self].pending # {}
                   THEN [docs2 EXCEPT ![s1] = index[Self].pending]
                   ELSE docs2
           written == Cardinality({j \in Indices : index[j].pending # {}})
           ids == self.meta
           moved == MovedSegments(ids, other.meta)
           renamed == {x \in moved : x \in other.files}
           meta == self.meta \cup moved
           union == UNION {index[j].pending \cup DocsOf(index[j].meta) : j \in Indices}
       IN /\ nextSeg + written - 1 <= MaxSegs
          /\ segDocs' = docs
          /\ nextSeg' = nextSeg + written
          /\ index' = [index EXCEPT
                          ![Self] = [open |-> TRUE, pending |-> {}, meta |-> meta,
                                     reader |-> meta,
                                     files |-> self.files \cup renamed],
                          ![Other] = Closed]
          /\ outcome' = [op |-> "merge",
                         segments1 |-> self.meta, segments2 |-> other.meta,
                         skipped |-> other.meta \ moved,
                         renamed |-> renamed,
                         conflict |-> (renamed \cap self.files) # {},
                         aborted |-> FALSE,
                         meta |-> meta]
          /\ merged' = [docs |-> union,
                        pending |-> index[Self].pending \cup index[Other].pending,
                        skipped |-> other.meta \ moved]
          /\ committed' = union
    /\ UNCHANGED searcher
    /\ UNCHANGED <<cvars, dvars, pvars, xvars>>

\* the arguments of merge_into_max_segments: one candidate (1, 2) or two (3)
MaxNumSegments == {1, 2, 3}

\* one index: inserts, commits, searches and merge_into_max_segments
NextIndex ==
    \/ \E page \in Pages : IndexInsert(Self, page)
    \/ Commit(Self)
    \/ ReaderReload(Self)
    \/ \E q \in Queries : SearcherAcquire(Self, q)
    \/ SearchRun
    \/ \E url \in Urls : GetWebpage(Self, url)
    \/ \E max_num_segments \in MaxNumSegments : MergeIntoMaxSegments(Self, max_num_segments)

MaxStoredDocs == 3

\* the documents of the segments 1..4 of a directory written by earlier
\* runs; sizes gives the number of documents of each
StoredSegments(sizes) ==
    [x \in 1..MaxSegs |->
        IF x \in DOMAIN sizes
        THEN {Webpage(10 * x + k, "https://www.dr.dk", {"news"}) : k \in 1..sizes[x]}
        ELSE {}]

\* InvertedIndex::open on a directory that holds the segments meta of
\* StoredSegments(sizes)
OpenStored(meta, sizes) ==
    /\ index = [i \in Indices |-> IF i = Self THEN Open(meta) ELSE Closed]
    /\ segDocs = StoredSegments(sizes)
    /\ nextSeg = 5
    /\ searcher = None
    /\ outcome = [op |-> "open"]
    /\ merged = None
    /\ committed = UNION {StoredSegments(sizes)[x] : x \in meta}

\* one index that is compacted, and compacted again
NextCompact ==
    \E max_num_segments \in MaxNumSegments : MergeIntoMaxSegments(Self, max_num_segments)

\* two indexes that are filled, compacted and merged
NextMerge ==
    \/ \E i \in Indices, page \in Pages : IndexInsert(i, page)
    \/ \E i \in Indices : Commit(i)
    \/ ReaderReload(Self)
    \/ \E max_num_segments \in MaxNumSegments : MergeIntoMaxSegments(Self, max_num_segments)
    \/ Merge

(***************************************************************************)
(* DHT: one shard replicated on the nodes of proptest_chaos                *)
(***************************************************************************)
Nodes == {1, 2}

Tasks == {"t1", "t2"}

Keys == {"hello", "non-existent-key"}

Values == {"world", "there"}

LinKey == "ensure-linearized-read"

\* Request::Set
Set(k, v) == [key |-> k, value |-> v]

\* Option<Value> is a set of at most one value
Lookup(table, k) == table[k]

\* the state machine applies a Set to its table
ApplySet(table, req) == [table EXCEPT ![req.key] = {req.value}]

Max(a, b) == IF a > b THEN a ELSE b

\* raft.initialize(members) on the nodes of m, then the election; tasks is
\* the set of tasks that issue requests.
NewShard(tasks, l, m) ==
    /\ leader = l
    /\ members = m
    /\ joinCommit = [n \in Nodes |-> 0]
    /\ node_state = [n \in Nodes |-> "up"]
    /\ log = <<>>
    /\ matchIndex = [n \in Nodes |-> 0]
    /\ commitIndex = 0
    /\ applied = [n \in Nodes |-> 0]
    /\ db = [n \in Nodes |-> [k \in Keys \cup {LinKey} |-> {}]]
    /\ clients = tasks
    /\ client = [c \in Tasks |-> [pc |-> "idle", node |-> l, key |-> LinKey,
                                  value |-> "()", index |-> 0,
                                  floor |-> [k \in Keys |-> 0]]]
    /\ acked = [k \in Keys |-> 0]
    /\ ground_truth = [k \in Keys |-> {}]
    /\ getResult = None

\* The request reaches the leader (a follower forwards it) and is appended
\* to the log.
ClientWrite(c, n, req, pc) ==
    /\ c \in clients
    /\ n \in members
    /\ node_state[n] # "down"
    /\ client[c].pc = "idle"
    /\ Len(log) < MaxLog
    /\ log' = Append(log, req)
    /\ matchIndex' = [matchIndex EXCEPT ![leader] = Len(log) + 1]
    /\ client' = [client EXCEPT ![c] = [pc |-> pc, node |-> n, key |-> req.key,
                                        value |-> req.value, index |-> Len(log) + 1,
                                        floor |-> acked]]
    /\ UNCHANGED <<leader, commitIndex, applied, db, clients, acked, ground_truth,
                   getResult, members, joinCommit,
                   node_state>>

\* client.set(table, key, value) is sent to node n
SetBegin(c, n, k, v) ==
    /\ ClientWrite(c, n, Set(k, v), "set")
    /\ UNCHANGED <<cvars, ivars, pvars, xvars>>

\* client.set(table, "ensure-linearized-read", ()) is sent to node n
LinearizeBegin(c, n) ==
    /\ ClientWrite(c, n, Set(LinKey, "()"), "linearize")
    /\ UNCHANGED <<cvars, ivars, pvars, xvars>>

\* the leader replicates the next entry to follower n
AppendEntries(n) ==
    /\ n # leader
    /\ n \in members
    /\ node_state[n] # "down"
    /\ matchIndex[n] < Len(log)
    /\ matchIndex' = [matchIndex EXCEPT ![n] = @ + 1]
    /\ UNCHANGED <<leader, log, commitIndex, applied, db, clients, client, acked,
                   ground_truth, getResult, members, joinCommit,
                   node_state>>
    /\ UNCHANGED <<cvars, ivars, pvars, xvars>>

\* an entry stored on a quorum is committed
AdvanceCommit ==
    /\ commitIndex < Len(log)
    /\ 2 * Cardinality({n \in members : matchIndex[n] > commitIndex})
          > Cardinality(members)
    /\ commitIndex' = commitIndex + 1
    /\ UNCHANGED <<leader, log, matchIndex, applied, db, clients, client, acked,
                   ground_truth, getResult, members, joinCommit,
                   node_state>>
    /\ UNCHANGED <<cvars, ivars, pvars, xvars>>

\* node n applies its next committed entry to its state machine
Apply(n) ==
    /\ n \in members
    /\ node_state[n] # "down"
    /\ applied[n] < commitIndex
    /\ applied[n] < matchIndex[n]
    /\ applied' = [applied EXCEPT ![n] = @ + 1]
    /\ db' = [db EXCEPT ![n] = ApplySet(@, log[applied[n] + 1])]
    /\ UNCHANGED <<leader, log, matchIndex, commitIndex, clients, client, acked,
                   ground_truth, getResult, members, joinCommit,
                   node_state>>
    /\ UNCHANGED <<cvars, ivars, pvars, xvars>>

\* The response of a write: the entry is committed and applied by the leader,
\* and the node the request was sent to has applied up to its log index.
Responded(c) ==
    /\ applied[leader] >= client[c].index
    /\ applied[client[c].node] >= client[c].index

\* the set returns as soon as the leader has the entry in its log
SetReturnEarly(c) ==
    /\ client[c].pc = "set"
    /\ client' = [client EXCEPT ![c].pc = "idle"]
    /\ acked' = [acked EXCEPT ![client[c].key] = Max(@, client[c].index)]
    /\ ground_truth' = [ground_truth EXCEPT ![client[c].key] = {client[c].value}]
    /\ UNCHANGED <<leader, log, matchIndex, commitIndex, applied, db, clients,
                   getResult, members, joinCommit,
                   node_state>>
    /\ UNCHANGED <<cvars, ivars, pvars, xvars>>

\* client.set(..).await returns; ground_truth.insert(key, value)
SetReturn(c) ==
    /\ client[c].pc = "set"
    /\ Responded(c)
    /\ client' = [client EXCEPT ![c].pc = "idle"]
    /\ acked' = [acked EXCEPT ![client[c].key] = Max(@, client[c].index)]
    /\ ground_truth' = [ground_truth EXCEPT ![client[c].key] = {client[c].value}]
    /\ UNCHANGED <<leader, log, matchIndex, commitIndex, applied, db, clients,
                   getResult, members, joinCommit,
                   node_state>>
    /\ UNCHANGED <<cvars, ivars, pvars, xvars>>

\* client.set(table, "ensure-linearized-read", ()).await returns
LinearizeReturn(c) ==
    /\ client[c].pc = "linearize"
    /\ Responded(c)
    /\ client' = [client EXCEPT ![c].pc = "linearized"]
    /\ UNCHANGED <<leader, log, matchIndex, commitIndex, applied, db, clients,
                   acked, ground_truth, getResult, members, joinCommit,
                   node_state>>
    /\ UNCHANGED <<cvars, ivars, pvars, xvars>>

\* a get on any node, without the write before it
UnlinearizedRead(c, n) == client[c].pc \in {"idle", "linearized"}

\* Action::Get: the get goes to the client that completed the
\* ensure-linearized-read set
LinearizedRead(c, n) == client[c].pc = "linearized" /\ client[c].node = n

\* client.get(table, key): served by the state machine of node n;
\* expected = ground_truth.get(&key)
Get(c, n, k) ==
    /\ c \in clients
    /\ LinearizedRead(c, n)
    /\ getResult' = [node |-> n, key |-> k, res |-> Lookup(db[n], k),
                     expected |-> ground_truth[k],
                     floor |-> client[c].floor[k],
                     state |-> node_state[n]]
    /\ client' = [client EXCEPT ![c].pc = "idle"]
    /\ UNCHANGED <<leader, log, matchIndex, commitIndex, applied, db, clients,
                   acked, ground_truth, members, joinCommit,
                   node_state>>
    /\ UNCHANGED <<cvars, ivars, pvars, xvars>>

NextDht ==
    \/ \E c \in Tasks, n \in Nodes, k \in Keys \ {"non-existent-key"}, v \in Values :
            SetBegin(c, n, k, v)
    \/ \E c \in Tasks, n \in Nodes : LinearizeBegin(c, n)
    \/ \E n \in Nodes : AppendEntries(n)
    \/ AdvanceCommit
    \/ \E n \in Nodes : Apply(n)
    \/ \E c \in Tasks : SetReturn(c)
    \/ \E c \in Tasks : LinearizeReturn(c)
    \/ \E c \in Tasks, n \in Nodes, k \in Keys : Get(c, n, k)

\* the node joins and the leader takes its log for replicated and applied
JoinWithoutLog(n) ==
    /\ n \notin members
    /\ members' = members \cup {n}
    /\ joinCommit' = [joinCommit EXCEPT ![n] = commitIndex]
    /\ matchIndex' = [matchIndex EXCEPT ![n] = Len(log)]
    /\ applied' = [applied EXCEPT ![n] = commitIndex]
    /\ UNCHANGED <<leader, log, commitIndex, db, clients, client, acked,
                   ground_truth, getResult, node_state>>
    /\ UNCHANGED <<cvars, ivars, pvars, xvars>>

\* rc1.join(n, addr): the leader adds node n, which has an empty log, to
\* the group and starts to replicate to it; join does not wait for that
Join(n) ==
    /\ n \notin members
    /\ members' = members \cup {n}
    /\ joinCommit' = [joinCommit EXCEPT ![n] = commitIndex]
    /\ matchIndex' = [matchIndex EXCEPT ![n] = 0]
    /\ applied' = [applied EXCEPT ![n] = 0]
    /\ UNCHANGED <<leader, log, commitIndex, db, clients, client, acked,
                   ground_truth, getResult, node_state>>
    /\ UNCHANGED <<cvars, ivars, pvars, xvars>>

\* c3.get(table, key) on the joined node n after the sleep: the node has
\* applied what was committed when it joined
GetOnJoined(c, n, k) ==
    /\ c \in clients
    /\ client[c].pc = "idle"
    /\ n \in members /\ n # leader
    /\ node_state[n] # "down"
    /\ applied[n] >= joinCommit[n]
    /\ getResult' = [node |-> n, key |-> k, res |-> Lookup(db[n], k),
                     expected |-> ground_truth[k],
                     floor |-> client[c].floor[k],
                     state |-> node_state[n]]
    /\ UNCHANGED <<leader, log, matchIndex, commitIndex, applied, db, clients,
                   client, acked, ground_truth, members, joinCommit,
                   node_state>>
    /\ UNCHANGED <<cvars, ivars, pvars, xvars>>

\* handles[1].abort(); drop(raft2): the follower n stops; its log store and
\* its state machine are in memory and are lost.  The leader keeps what it
\* recorded about n.
Crash(n) ==
    /\ n # leader
    /\ n \in members
    /\ node_state[n] = "up"
    /\ node_state' = [node_state EXCEPT ![n] = "down"]
    /\ db' = [db EXCEPT ![n] = [k \in Keys \cup {LinKey} |-> {}]]
    /\ applied' = [applied EXCEPT ![n] = 0]
    /\ UNCHANGED <<leader, log, matchIndex, commitIndex, clients, client, acked,
                   ground_truth, getResult, members, joinCommit>>
    /\ UNCHANGED <<cvars, ivars, pvars, xvars>>

\* server(n) under the same id, then rc1.join(n, addr).  A node that lost
\* its committed log is outside of what Raft provides for: the leader
\* replicates to it from the start, or goes on from the index it recorded
\* for n before the crash.
Rejoin(n) ==
    /\ node_state[n] = "down"
    /\ node_state' = [node_state EXCEPT ![n] = "restarted"]
    /\ joinCommit' = [joinCommit EXCEPT ![n] = commitIndex]
    /\ \E from \in {0, matchIndex[n]} :
          /\ matchIndex' = [matchIndex EXCEPT ![n] = from]
          /\ applied' = [applied EXCEPT ![n] = Min(from, commitIndex)]
    /\ UNCHANGED <<leader, log, commitIndex, db, clients, client, acked,
                   ground_truth, getResult, members>>
    /\ UNCHANGED <<cvars, ivars, pvars, xvars>>

NextDhtJoin ==
    \/ \E c \in Tasks, n \in Nodes, k \in Keys \ {"non-existent-key"}, v \in Values :
            SetBegin(c, n, k, v)
    \/ \E n \in Nodes : AppendEntries(n)
    \/ AdvanceCommit
    \/ \E n \in Nodes : Apply(n)
    \/ \E c \in Tasks : SetReturn(c)
    \/ \E n \in Nodes : Join(n)
    \/ \E c \in Tasks, n \in Nodes, k \in Keys : GetOnJoined(c, n, k)

NextDhtCrash ==
    \/ NextDhtJoin
    \/ \E n \in Nodes : Crash(n)
    \/ \E n \in Nodes : Rejoin(n)

(***************************************************************************)
(* DHT: tables, get, batch_get and stream on a shard of one node           *)
(* (test_stream, test_simple_set_get).  With one member every write is     *)
(* committed and applied when it returns.                                  *)
(***************************************************************************)
TableNames == {"test", "test2"}

TableKeys == 0..MaxKey

TableValues == {"world", "world2"}

\* the number of pairs the server sends for one request of a stream
BatchSizes == {1, 2}

\* the key-value pairs of a table
PairsOf(table) == UNION {{<<k, v>> : v \in table[k]} : k \in TableKeys}

\* the pairs of the table from the cursor on
PairsAfterInclusive(table, cursor) ==
    {pr \in PairsOf(table) : cursor = None \/ pr[1] >= cursor.key}

\* the pairs of the table behind the cursor
PairsAfter(table, cursor) ==
    {pr \in PairsOf(table) : cursor = None \/ pr[1] > cursor.key}

RECURSIVE InKeyOrder(_)
\* the pairs of a set in the order of their keys
InKeyOrder(prs) ==
    IF prs = {} THEN <<>>
    ELSE LET first == CHOOSE pr \in prs : \A other \in prs : pr[1] <= other[1]
         IN <<first>> \o InKeyOrder(prs \ {first})

\* a shard of one node with empty tables
NewTables ==
    /\ tables = [t \in TableNames |-> [k \in TableKeys |-> {}]]
    /\ stream = None
    /\ kv_out = None

\* the stream remembers that its table was written to after it was opened
Mutated(t) ==
    IF stream # None /\ stream.table = t
    THEN [stream EXCEPT !.mutated = TRUE]
    ELSE stream

\* client.set(table, key, value)
TableSet(t, k, v) ==
    /\ tables' = [tables EXCEPT ![t][k] = {v}]
    /\ stream' = Mutated(t)
    /\ UNCHANGED kv_out
    /\ UNCHANGED notK

\* client.batch_set(table, pairs): one entry sets every pair
TableBatchSet(t, v) ==
    /\ tables' = [tables EXCEPT ![t] = [k \in TableKeys |-> {v}]]
    /\ stream' = Mutated(t)
    /\ UNCHANGED kv_out
    /\ UNCHANGED notK

\* client.stream(table)
StreamOpen(t, batch_size) ==
    /\ IF stream = None THEN TRUE ELSE stream.done
    /\ stream' = [table |-> t, batch_size |-> batch_size, cursor |-> None,
                  yielded |-> <<>>, done |-> FALSE, mutated |-> FALSE]
    /\ UNCHANGED <<tables, kv_out>>
    /\ UNCHANGED notK

\* the next batch starts with the pair the cursor is on
StreamNextInclusive ==
    /\ stream # None /\ ~stream.done
    /\ LET batch == Take(InKeyOrder(PairsAfterInclusive(tables[stream.table], stream.cursor)),
                         stream.batch_size)
       IN stream' = IF batch = <<>>
                    THEN [stream EXCEPT !.done = TRUE]
                    ELSE [stream EXCEPT !.yielded = @ \o batch,
                                        !.cursor = [key |-> batch[Len(batch)][1]]]
    /\ UNCHANGED <<tables, kv_out>>
    /\ UNCHANGED notK

\* stream.try_next() that needs the next batch: the server answers with the
\* next batch_size pairs behind the cursor; an empty batch ends the stream
StreamNext ==
    /\ stream # None /\ ~stream.done
    /\ LET batch == Take(InKeyOrder(PairsAfter(tables[stream.table], stream.cursor)),
                         stream.batch_size)
       IN stream' = IF batch = <<>>
                    THEN [stream EXCEPT !.done = TRUE]
                    ELSE [stream EXCEPT !.yielded = @ \o batch,
                                        !.cursor = [key |-> batch[Len(batch)][1]]]
    /\ UNCHANGED <<tables, kv_out>>
    /\ UNCHANGED notK

\* client.get(table, key): the value the state machine holds for the key
TableGet(t, k) ==
    /\ kv_out' = [op |-> "get", table |-> t, key |-> k,
                  value |-> Lookup(tables[t], k)]
    /\ UNCHANGED <<tables, stream>>
    /\ UNCHANGED notK

\* every pair of the table is returned, requested or not
TableBatchGetAll(t, keys) ==
    /\ kv_out' = [op |-> "batch_get", table |-> t, keys |-> keys,
                  res |-> PairsOf(tables[t])]
    /\ UNCHANGED <<tables, stream>>
    /\ UNCHANGED notK

\* client.batch_get(table, keys): the pairs of the requested keys that have
\* a value
TableBatchGet(t, keys) ==
    /\ kv_out' = [op |-> "batch_get", table |-> t, keys |-> keys,
                  res |-> UNION {{<<k, v>> : v \in Lookup(tables[t], k)} : k \in keys}]
    /\ UNCHANGED <<tables, stream>>
    /\ UNCHANGED notK

NextKv ==
    \/ \E t \in TableNames, k \in TableKeys : TableGet(t, k)
    \/ \E t \in TableNames, keys \in SUBSET TableKeys : TableBatchGet(t, keys)
    \/ \E t \in TableNames, k \in TableKeys, v \in TableValues : TableSet(t, k, v)
    \/ \E t \in TableNames, v \in TableValues : TableBatchSet(t, v)

NextStream ==
    \/ \E t \in TableNames, k \in TableKeys, v \in TableValues : TableSet(t, k, v)
    \/ \E t \in TableNames, v \in TableValues : TableBatchSet(t, v)
    \/ \E t \in TableNames, batch_size \in BatchSizes : StreamOpen(t, batch_size)
    \/ StreamNext

(***************************************************************************)
(* Live index: the replicas of the shards of a cluster                     *)
(***************************************************************************)
\* rep1 and rep2 are replicas of shard 1, shard2 is the replica of shard 2
Replicas == {"rep1", "rep2", "shard2"}

ShardOf(r) == IF r = "shard2" THEN 2 ELSE 1

\* the replicas of the shard of r other than r
Peers(r) == {p \in Replicas \ {r} : ShardOf(p) = ShardOf(r)}

\* the pages of the tests: https://a.com/ and https://b.com/, both matching
\* the query "test"
Webpages == {"https://a.com/", "https://b.com/"}

\* consistency_fraction in percent: Some(1.0), and a write that needs no
\* acknowledgement
ConsistencyFractions == {0, 100}

\* every page a replica holds, committed or not
Held(r) == li_inserts[r] \cup li_index[r]

\* the replicas that are running and advertised as Ready
ReadyReplicas == {p \in Replicas : li_status[p] = "ready" /\ li_view[p] = "ready"}

\* RemoteIndex::start of every replica, each awaited Ready
NewCluster ==
    /\ li_status = [r \in Replicas |-> "ready"]
    /\ li_view = [r \in Replicas |-> "ready"]
    /\ li_inserts = [r \in Replicas |-> {}]
    /\ li_index = [r \in Replicas |-> {}]
    /\ li_out = None

\* RemoteIndex::start: LiveIndexService::new on a fresh index path; the
\* replica joins the cluster as InSetup
StartReplica(r) ==
    /\ li_status[r] = "off"
    /\ li_view[r] = "none"
    /\ li_status' = [li_status EXCEPT ![r] = "setup"]
    /\ li_view' = [li_view EXCEPT ![r] = "setup"]
    /\ li_inserts' = [li_inserts EXCEPT ![r] = {}]
    /\ li_index' = [li_index EXCEPT ![r] = {}]
    /\ UNCHANGED li_out
    /\ UNCHANGED notL

\* a setup that advertises Ready without catching up
BackgroundSetupNoCatchUp(r) ==
    /\ li_status[r] = "setup"
    /\ li_status' = [li_status EXCEPT ![r] = "ready"]
    /\ li_view' = [li_view EXCEPT ![r] = "ready"]
    /\ li_out' = [op |-> "setup", replica |-> r, pages |-> {}]
    /\ UNCHANGED <<li_inserts, li_index>>
    /\ UNCHANGED notL

\* service.background_setup(): the replica catches up from a Ready replica
\* of its shard, if there is one, and then advertises Ready
BackgroundSetup(r) ==
    /\ li_status[r] = "setup"
    /\ IF Peers(r) \cap ReadyReplicas = {}
          THEN /\ UNCHANGED li_inserts
               /\ li_out' = [op |-> "setup", replica |-> r, pages |-> {}]
          ELSE \E p \in Peers(r) \cap ReadyReplicas :
                  /\ li_inserts' = [li_inserts EXCEPT ![r] = Held(r) \cup Held(p)]
                  /\ li_out' = [op |-> "setup", replica |-> r, pages |-> Held(p)]
    /\ li_status' = [li_status EXCEPT ![r] = "ready"]
    /\ li_view' = [li_view EXCEPT ![r] = "ready"]
    /\ UNCHANGED li_index
    /\ UNCHANGED notL

\* the replicas a write through r is sent to: the replicas of the shard the
\* cluster advertises as Ready
WriteTargets(r) == {p \in Peers(r) : li_view[p] = "ready"}

\* the targets that answer
WriteAcks(r) == {p \in WriteTargets(r) : li_status[p] = "ready"}

\* enough targets have acknowledged
Consistent(r, consistency_fraction) ==
    100 * Cardinality(WriteAcks(r)) >=
        consistency_fraction * Cardinality(WriteTargets(r))

\* a write that is indexed by the receiving replica only
IndexWebpagesLocalOnly(r, page, consistency_fraction) ==
    /\ li_status[r] = "ready"
    /\ li_inserts' = [li_inserts EXCEPT ![r] = @ \cup {page}]
    /\ li_out' = [op |-> "index", replica |-> r, page |-> page,
                  consistency_fraction |-> consistency_fraction, ok |-> TRUE]
    /\ UNCHANGED <<li_status, li_view, li_index>>
    /\ UNCHANGED notL

\* conn.send(IndexWebpages { pages, consistency_fraction }): the pages are
\* sent to the Ready replicas of the shard; the write succeeds, and the
\* receiving replica indexes the pages, when the required fraction of them
\* has acknowledged
IndexWebpages(r, page, consistency_fraction) ==
    /\ li_status[r] = "ready"
    /\ li_inserts' =
          [p \in Replicas |->
              IF \/ p \in WriteAcks(r)
                 \/ p = r /\ Consistent(r, consistency_fraction)
                  THEN li_inserts[p] \cup {page}
                  ELSE li_inserts[p]]
    /\ li_out' = [op |-> "index", replica |-> r, page |-> page,
                  consistency_fraction |-> consistency_fraction,
                  ok |-> Consistent(r, consistency_fraction)]
    /\ UNCHANGED <<li_status, li_view, li_index>>
    /\ UNCHANGED notL

\* commit_underlying: underlying_index.commit()
CommitUnderlying(r) ==
    /\ li_status[r] = "ready"
    /\ li_inserts[r] # {}
    /\ li_index' = [li_index EXCEPT ![r] = @ \cup li_inserts[r]]
    /\ li_inserts' = [li_inserts EXCEPT ![r] = {}]
    /\ UNCHANGED <<li_status, li_view, li_out>>
    /\ UNCHANGED notL

\* RemoteIndex::search("test"): Search and RetrieveWebsites on the replica
LiveSearch(r) ==
    /\ li_status[r] = "ready"
    /\ li_out' = [op |-> "search", replica |-> r, res |-> li_index[r]]
    /\ UNCHANGED <<li_status, li_view, li_inserts, li_index>>
    /\ UNCHANGED notL

\* RemoteIndex::kill of a replica of a shard with two replicas:
\* cluster.remove_service(); the replica is gone, the other members still
\* see it
Kill(r) ==
    /\ li_status[r] = "ready"
    /\ Peers(r) # {}
    /\ li_status' = [li_status EXCEPT ![r] = "off"]
    /\ li_inserts' = [li_inserts EXCEPT ![r] = {}]
    /\ li_index' = [li_index EXCEPT ![r] = {}]
    /\ UNCHANGED <<li_view, li_out>>
    /\ UNCHANGED notL

\* a removal that is never gossiped
ForgetNever(r) ==
    /\ li_status[r] = "off"
    /\ li_view[r] # "none"
    /\ UNCHANGED lvars
    /\ UNCHANGED notL

\* the cluster's gossip drops the member that left
Forget(r) ==
    /\ li_status[r] = "off"
    /\ li_view[r] # "none"
    /\ li_view' = [li_view EXCEPT ![r] = "none"]
    /\ UNCHANGED <<li_status, li_inserts, li_index, li_out>>
    /\ UNCHANGED notL

NextLive ==
    \/ \E r \in Replicas : StartReplica(r)
    \/ \E r \in Replicas : BackgroundSetup(r)
    \/ \E r \in Replicas, page \in Webpages,
          consistency_fraction \in ConsistencyFractions :
            IndexWebpages(r, page, consistency_fraction)
    \/ \E r \in Replicas : CommitUnderlying(r)
    \/ \E r \in Replicas : LiveSearch(r)
    \/ \E r \in Replicas : Kill(r)
    \/ \E r \in Replicas : Forget(r)

(***************************************************************************)
(* InvertedIndex::retrieve_websites: the primary image                     *)
(***************************************************************************)
\* the simple terms a query can have
QueryTerms == {"website", "Website", "best"}

\* the terms of a stored image; they are stored in lower case
ImageTitleTerms == {"title", "best"}

ImageDescriptionTerms == {"test", "website"}

\* term.to_ascii_lowercase()
ToAsciiLowercase(term) ==
    CASE term = "Website" -> "website"
      [] term = "Best" -> "best"
      [] OTHER -> term

\* the StoredPrimaryImage values of the model
StoredImages ==
    [title_terms : SUBSET ImageTitleTerms,
     description_terms : SUBSET ImageDescriptionTerms]

\* a page, with or without a primary image, and a query
NewRetrieval(query, stored) ==
    /\ img_query = query
    /\ img_stored = stored
    /\ img_out = None

\* the image is kept when some term of the query is among its terms
PrimaryImageAny(image, query) ==
    IF \E term \in query :
          \/ ToAsciiLowercase(term) \in image.title_terms
          \/ ToAsciiLowercase(term) \in image.description_terms
        THEN {image}
        ELSE {}

\* the closure of retrieve_websites on a document with a primary image:
\* if !query.simple_terms().into_iter().all(..) { doc.primary_image = None }
PrimaryImage(image, query) ==
    IF \A term \in query :
          \/ ToAsciiLowercase(term) \in image.title_terms
          \/ ToAsciiLowercase(term) \in image.description_terms
        THEN {image}
        ELSE {}

\* retrieve_websites for one document
RetrievePrimaryImage ==
    /\ img_out = None
    /\ img_out' =
          [url |-> "https://www.example.com",
           primary_image |->
              IF img_stored = {}
                  THEN {}
                  ELSE UNION {PrimaryImage(image, img_query) : image \in img_stored}]
    /\ UNCHANGED <<img_query, img_stored>>
    /\ UNCHANGED notG

NextImage == RetrievePrimaryImage

(***************************************************************************)
(* IndexManager::run                                                       *)
(***************************************************************************)
\* the intervals of the loop, in ticks of the clock
AUTO_COMMIT_INTERVAL == 2

PRUNE_INTERVAL == 3

COMPACT_INTERVAL == 4

EVENT_LOOP_INTERVAL == 1

\* let mut last_commit = Utc::now(); let mut last_prune = Utc::now();
\* let mut last_compact = Utc::now();
NewManager ==
    /\ now = 0
    /\ last_commit = 0
    /\ last_prune = 0
    /\ last_compact = 0
    /\ has_inserts = FALSE
    /\ im_phase = "awake"
    /\ im_did = {}
    /\ inserted_at = {}

\* what an iteration of the loop invokes at the time now
Due ==
    (IF last_prune + PRUNE_INTERVAL < now THEN {"prune"} ELSE {})
    \cup (IF last_commit + AUTO_COMMIT_INTERVAL < now /\ has_inserts
              THEN {"commit"} ELSE {})
    \cup (IF last_compact + COMPACT_INTERVAL < now THEN {"compact"} ELSE {})

\* an iteration that resets the commit timer whenever the interval has
\* elapsed
IterationResetsTimer ==
    /\ im_phase = "awake"
    /\ im_did' = Due
    /\ last_prune' = IF "prune" \in Due THEN now ELSE last_prune
    /\ last_commit' =
          IF last_commit + AUTO_COMMIT_INTERVAL < now THEN now ELSE last_commit
    /\ has_inserts' = IF "commit" \in Due THEN FALSE ELSE has_inserts
    /\ inserted_at' = IF "commit" \in Due THEN {} ELSE inserted_at
    /\ last_compact' = IF "compact" \in Due THEN now ELSE last_compact
    /\ im_phase' = "sleep"
    /\ UNCHANGED now
    /\ UNCHANGED notM

\* what compact_segments_by_date can return when it is invoked
CompactResults == IF "compact" \in Due THEN {{}, {"compact_failed"}} ELSE {{}}

\* an iteration that leaves the loop when the compaction fails
IterationStopsOnError ==
    /\ im_phase = "awake"
    /\ \E failed \in CompactResults :
          /\ im_did' = Due \cup failed
          /\ im_phase' = IF failed = {} THEN "sleep" ELSE "stopped"
    /\ last_prune' = IF "prune" \in Due THEN now ELSE last_prune
    /\ last_commit' = IF "commit" \in Due THEN now ELSE last_commit
    /\ has_inserts' = IF "commit" \in Due THEN FALSE ELSE has_inserts
    /\ inserted_at' = IF "commit" \in Due THEN {} ELSE inserted_at
    /\ last_compact' = IF "compact" \in Due THEN now ELSE last_compact
    /\ UNCHANGED now
    /\ UNCHANGED notM

\* the body of the loop up to the sleep: prune_segments, commit and
\* compact_segments_by_date, each when it is due; an error of the
\* compaction is logged
Iteration ==
    /\ im_phase = "awake"
    /\ \E failed \in CompactResults : im_did' = Due \cup failed
    /\ last_prune' = IF "prune" \in Due THEN now ELSE last_prune
    /\ last_commit' = IF "commit" \in Due THEN now ELSE last_commit
    /\ has_inserts' = IF "commit" \in Due THEN FALSE ELSE has_inserts
    /\ inserted_at' = IF "commit" \in Due THEN {} ELSE inserted_at
    /\ last_compact' = IF "compact" \in Due THEN now ELSE last_compact
    /\ im_phase' = "sleep"
    /\ UNCHANGED now
    /\ UNCHANGED notM

\* std::thread::sleep(EVENT_LOOP_INTERVAL): at least the interval passes
Sleep ==
    /\ im_phase = "sleep"
    /\ \E d \in EVENT_LOOP_INTERVAL..(EVENT_LOOP_INTERVAL + 1) :
          /\ now + d <= MaxNow
          /\ now' = now + d
    /\ im_phase' = "awake"
    /\ UNCHANGED <<last_commit, last_prune, last_compact, has_inserts, im_did,
                   inserted_at>>
    /\ UNCHANGED notM

\* another thread inserts pages into the index, or commits it
IndexChanges ==
    /\ has_inserts' = ~has_inserts
    /\ inserted_at' = IF has_inserts THEN {} ELSE {now}
    /\ UNCHANGED <<now, last_commit, last_prune, last_compact, im_phase, im_did>>
    /\ UNCHANGED notM

NextManager ==
    \/ Iteration
    \/ Sleep
    \/ IndexChanges

(***************************************************************************)
(* config::parse_duration                                                  *)
(***************************************************************************)
\* u64, scaled down to U64_BITS bits
U64_BITS == 20

U64_MAX == 2^U64_BITS - 1

\* char::is_numeric, on the characters of the model
IsNumeric(c) == c \in {"0", "1", "2", "3", "4", "5", "6", "7", "8", "9"}

DigitValue(c) ==
    CASE c = "0" -> 0 [] c = "1" -> 1 [] c = "2" -> 2 [] c = "3" -> 3
      [] c = "4" -> 4 [] c = "5" -> 5 [] c = "6" -> 6 [] c = "7" -> 7
      [] c = "8" -> 8 [] c = "9" -> 9

\* s.trim_end_matches(|c: char| !c.is_numeric())
RECURSIVE TrimEndNonNumeric(_)
TrimEndNonNumeric(s) ==
    IF s = <<>> \/ IsNumeric(s[Len(s)])
        THEN s
        ELSE TrimEndNonNumeric(SubSeq(s, 1, Len(s) - 1))

\* the digits of a number, read from the left onto acc: the set of the
\* value, empty when a character is no digit or the value exceeds u64
RECURSIVE ParseDigits(_, _)
ParseDigits(s, acc) ==
    IF s = <<>> THEN {acc}
    ELSE IF ~IsNumeric(s[1]) THEN {}
    ELSE IF acc * 10 + DigitValue(s[1]) > U64_MAX THEN {}
    ELSE ParseDigits(Tail(s), acc * 10 + DigitValue(s[1]))

\* num_part.parse::<u64>(): an optional + and at least one digit
ParseU64(s) ==
    IF s = <<>> THEN {}
    ELSE IF s[1] = "+" THEN (IF Len(s) = 1 THEN {} ELSE ParseDigits(Tail(s), 0))
    ELSE ParseDigits(s, 0)

\* str::trim, on the characters of the model
RECURSIVE TrimStart(_)
TrimStart(s) == IF s # <<>> /\ s[1] = " " THEN TrimStart(Tail(s)) ELSE s

RECURSIVE TrimEnd(_)
TrimEnd(s) ==
    IF s # <<>> /\ s[Len(s)] = " " THEN TrimEnd(SubSeq(s, 1, Len(s) - 1)) ELSE s

Trim(s) == TrimEnd(TrimStart(s))

\* the arms of the match: the suffix, from_millis or from_secs, and the
\* factors num is multiplied by, from the left
Units ==
    {[suffix |-> <<"s">>, millis |-> FALSE, factors |-> <<>>],
     [suffix |-> <<"s", "e", "c">>, millis |-> FALSE, factors |-> <<>>],
     [suffix |-> <<"s", "e", "c", "s">>, millis |-> FALSE, factors |-> <<>>],
     [suffix |-> <<"m", "s">>, millis |-> TRUE, factors |-> <<>>],
     [suffix |-> <<"m", "i", "l", "l", "i", "s">>, millis |-> TRUE, factors |-> <<>>],
     [suffix |-> <<"m", "i", "l", "l", "i", "s", "e", "c", "o", "n", "d", "s">>, millis |-> TRUE, factors |-> <<>>],
     [suffix |-> <<"m">>, millis |-> FALSE, factors |-> <<60>>],
     [suffix |-> <<"m", "i", "n", "s">>, millis |-> FALSE, factors |-> <<60>>],
     [suffix |-> <<"m", "i", "n", "u", "t", "e", "s">>, millis |-> FALSE, factors |-> <<60>>],
     [suffix |-> <<"h">>, millis |-> FALSE, factors |-> <<60, 60>>],
     [suffix |-> <<"h", "o", "u", "r", "s">>, millis |-> FALSE, factors |-> <<60, 60>>],
     [suffix |-> <<"d">>, millis |-> FALSE, factors |-> <<24, 60, 60>>],
     [suffix |-> <<"d", "a", "y">>, millis |-> FALSE, factors |-> <<24, 60, 60>>],
     [suffix |-> <<"d", "a", "y", "s">>, millis |-> FALSE, factors |-> <<24, 60, 60>>]}

\* Duration::from_secs and Duration::from_millis
FromSecs(n) == [secs |-> n, subsec_millis |-> 0]

FromMillis(n) == [secs |-> n \div 1000, subsec_millis |-> n % 1000]

\* num * f1 * f2 ..: whether a product exceeds u64
RECURSIVE Overflows(_, _)
Overflows(n, factors) ==
    IF factors = <<>> THEN FALSE
    ELSE IF n * Head(factors) > U64_MAX THEN TRUE
    ELSE Overflows(n * Head(factors), Tail(factors))

\* num * f1 * f2 .. with wrapping arithmetic
RECURSIVE WrappingMul(_, _)
WrappingMul(n, factors) ==
    IF factors = <<>> THEN n
    ELSE WrappingMul((n * Head(factors)) % (U64_MAX + 1), Tail(factors))

DurationOk(d) == [ok |-> d]

DurationErr(msg) == [err |-> msg]

DurationPanic == [panic |-> TRUE]

\* what parse_duration returns for the characters s.  A product that
\* exceeds u64 panics in a build with overflow checks and wraps in a build
\* without.
ParseDurationOutcomes(s) ==
    LET num_part == TrimEndNonNumeric(s)
        suffix == SubSeq(s, Len(num_part) + 1, Len(s))
        num == ParseU64(num_part)
        arms == {u \in Units : u.suffix = Trim(suffix)}
    IN  IF num = {} THEN {DurationErr("invalid number")}
        ELSE IF arms = {} THEN {DurationErr("invalid suffix")}
        ELSE UNION {UNION {
                IF u.millis THEN {DurationOk(FromMillis(n))}
                ELSE IF Overflows(n, u.factors)
                    THEN {DurationPanic,
                          DurationOk(FromSecs(WrappingMul(n, u.factors)))}
                    ELSE {DurationOk(FromSecs(WrappingMul(n, u.factors)))}
                : u \in arms} : n \in num}

\* the number parts and the suffixes of the strings of the model
NumParts ==
    {<<>>,
     <<"1">>,
     <<"5">>,
     <<"1", "2">>,
     <<"+", "5">>,
     <<"-", "5">>,
     <<"1", ".", "5">>,
     <<"2", "9", "2">>,
     <<"1", "7", "4", "7", "7">>,
     <<"1", "0", "4", "8", "5", "7", "6">>}

Suffixes ==
    {<<"s">>,
     <<"s", "e", "c">>,
     <<"s", "e", "c", "s">>,
     <<"m", "s">>,
     <<"m", "i", "l", "l", "i", "s">>,
     <<"m", "i", "l", "l", "i", "s", "e", "c", "o", "n", "d", "s">>,
     <<"m">>,
     <<"m", "i", "n", "s">>,
     <<"m", "i", "n", "u", "t", "e", "s">>,
     <<"h">>,
     <<"h", "o", "u", "r", "s">>,
     <<"d">>,
     <<"d", "a", "y">>,
     <<"d", "a", "y", "s">>,
     <<>>,
     <<"x">>,
     <<"m", "i", "n">>,
     <<"h", "o", "u", "r">>,
     <<" ", "m">>,
     <<"m", " ">>,
     <<"M">>}

DurationStrings == {n \o x : n \in NumParts, x \in Suffixes}

\* the string handed to the deserializer
NewInput(s) ==
    /\ dur_in = s
    /\ dur_out = None

\* parse_duration(deserializer)
ParseDuration ==
    /\ dur_out = None
    /\ dur_out' \in ParseDurationOutcomes(dur_in)
    /\ UNCHANGED dur_in
    /\ UNCHANGED notT

NextDuration == ParseDuration

(***************************************************************************)
(* TopSegmentCollector: max_docs and num_docs_taken.  The documents of a   *)
(* segment are offered in the order of their ids; a document is its id.    *)
(***************************************************************************)
MaxCollectors == 3

MaxSegDocs == 3

MaxTotalDocs == 4

\* MaxDocsConsidered { total_docs, segments }
MaxDocsConsideredOf(total_docs, segments) ==
    [total_docs |-> total_docs, segments |-> segments]

\* a TopDocs with the max_docs given, before the first for_segment
NewTopDocs(max_docs) ==
    /\ seg_top = max_docs
    /\ seg_collectors = <<>>

\* the number of segments of the index searched
NumSegments ==
    IF seg_top = {} THEN MaxCollectors
    ELSE (CHOOSE m \in seg_top : TRUE).segments

\* TopDocs::for_segment for the next segment of the index
ForSegment ==
    /\ Len(seg_collectors) < NumSegments
    /\ seg_collectors' = Append(seg_collectors,
          [max_docs |-> {m.total_docs \div m.segments : m \in seg_top},
           num_docs_taken |-> 0,
           bucket_collector |-> {},
           calls |-> 0,
           scored |-> 0])
    /\ UNCHANGED seg_top
    /\ UNCHANGED notS

\* TopSegmentCollector::is_done
IsDone(c) == \E max_docs \in c.max_docs : c.num_docs_taken >= max_docs

\* TopSegmentCollector::collect without the early return
SegmentCollectNoLimit(c, doc) ==
    [c EXCEPT !.num_docs_taken = @ + 1,
              !.bucket_collector = @ \cup {doc}]

\* TopSegmentCollector::collect
SegmentCollect(c, doc) ==
    IF IsDone(c) THEN c ELSE SegmentCollectNoLimit(c, doc)

\* TopTweakedScoreSegmentCollector::collect without the early returns
TweakedCollectNoLimit(i) ==
    /\ seg_collectors[i].calls < MaxSegDocs
    /\ seg_collectors' = [seg_collectors EXCEPT ![i] =
          SegmentCollectNoLimit([@ EXCEPT !.calls = @ + 1, !.scored = @ + 1],
                                seg_collectors[i].calls)]
    /\ UNCHANGED seg_top
    /\ UNCHANGED notS

\* TopTweakedScoreSegmentCollector::collect for the next matching document
\* of the segment i
TweakedCollect(i) ==
    /\ seg_collectors[i].calls < MaxSegDocs
    /\ seg_collectors' = [seg_collectors EXCEPT ![i] =
          IF IsDone(@) THEN [@ EXCEPT !.calls = @ + 1]
          ELSE SegmentCollect([@ EXCEPT !.calls = @ + 1, !.scored = @ + 1],
                              seg_collectors[i].calls)]
    /\ UNCHANGED seg_top
    /\ UNCHANGED notS

NextSegments ==
    \/ ForSegment
    \/ \E i \in DOMAIN seg_collectors : TweakedCollect(i)

(***************************************************************************)
(* LocalSearcher::search on a live index.  Every phase takes the read      *)
(* lock of the index for itself; commit, prune and compaction take the     *)
(* write lock, so they run between the phases.  A DocAddress is            *)
(* <<segment_ord, doc_id>>: the position of the segment in the reader and  *)
(* of the document in the segment.                                         *)
(***************************************************************************)
MaxLiveDocs == 4

MaxLiveSegs == 3

MaxPointers == 2

\* a live index with the segments given and a searcher that is not searching
NewLiveIndex(segments) ==
    /\ live_segments = segments
    /\ live_inserted = 0
    /\ live_search = [pc |-> "idle", pointers |-> <<>>, snapshot |-> <<>>,
                      websites |-> <<>>, result |-> None]

\* the addresses of the documents of the segments
LiveAddresses(segments) ==
    UNION {{<<ord, id>> : id \in 1..Len(segments[ord])} : ord \in 1..Len(segments)}

\* searcher.doc(address): at most one document
Resolve(segments, address) ==
    IF address \in LiveAddresses(segments)
    THEN {segments[address[1]][address[2]]}
    ELSE {}

\* every pointer resolved against the segments the first guard saw
ResolveSnapshot(snapshot, pointers) ==
    [i \in 1..Len(pointers) |-> snapshot[pointers[i][1]][pointers[i][2]]]

RECURSIVE ResolveAll(_, _)
\* InvertedIndex::retrieve_websites: retrieve_doc for every pointer,
\* filter_map(|res| res.ok())
ResolveAll(segments, pointers) ==
    IF pointers = <<>> THEN <<>>
    ELSE LET doc == Resolve(segments, Head(pointers))
             rest == ResolveAll(segments, Tail(pointers))
         IN IF doc = {} THEN rest ELSE <<CHOOSE d \in doc : TRUE>> \o rest

\* LiveIndex::commit: the inserted page becomes a new segment; the pages
\* are numbered as they are inserted
LiveCommit ==
    /\ Len(live_segments) < MaxLiveSegs
    /\ live_inserted < MaxLiveDocs
    /\ live_inserted' = live_inserted + 1
    /\ live_segments' = Append(live_segments, <<live_inserted + 1>>)
    /\ UNCHANGED live_search
    /\ UNCHANGED notQ

\* LiveIndex::prune_segments: the oldest segment is older than the TTL
LivePrune ==
    /\ live_segments # <<>>
    /\ live_segments' = Tail(live_segments)
    /\ UNCHANGED <<live_search, live_inserted>>
    /\ UNCHANGED notQ

\* LiveIndex::compact_segments_by_date: the two oldest segments are of one
\* day and are merged into one
LiveCompact ==
    /\ Len(live_segments) >= 2
    /\ live_segments' = <<live_segments[1] \o live_segments[2]>>
                            \o SubSeq(live_segments, 3, Len(live_segments))
    /\ UNCHANGED <<live_search, live_inserted>>
    /\ UNCHANGED notQ

\* LocalSearcher::search_initial: guard(), the ranking, the guard is dropped
LiveSearchInitial ==
    /\ live_search.pc = "idle"
    /\ \E n \in 1..MaxPointers :
       \E pointers \in [1..n -> LiveAddresses(live_segments)] :
          /\ \A i, j \in 1..n : i # j => pointers[i] # pointers[j]
          /\ live_search' = [pc |-> "ranked", pointers |-> pointers,
                             snapshot |-> live_segments, websites |-> <<>>,
                             result |-> None]
    /\ UNCHANGED <<live_segments, live_inserted>>
    /\ UNCHANGED notQ

\* LocalSearcher::retrieve_websites: guard(), retrieve_websites of the index
LiveRetrieve(segments, pointers) ==
    ResolveAll(segments, pointers)

\* the first retrieve_websites of search and zip_eq with the ranking
LiveRetrieveFirst ==
    /\ live_search.pc = "ranked"
    /\ LET websites == LiveRetrieve(live_segments, live_search.pointers)
       IN live_search' =
             IF ZipEq(websites, live_search.pointers) = Panic
             THEN [live_search EXCEPT !.pc = "done", !.result = Panic]
             ELSE [live_search EXCEPT !.pc = "zipped", !.websites = websites]
    /\ UNCHANGED <<live_segments, live_inserted>>
    /\ UNCHANGED notQ

\* the second retrieve_websites of search, and the result
LiveRetrieveSecond ==
    /\ live_search.pc = "zipped"
    /\ live_search' = [live_search EXCEPT !.pc = "done",
          !.result = Ok(LiveRetrieve(live_segments, live_search.pointers))]
    /\ UNCHANGED <<live_segments, live_inserted>>
    /\ UNCHANGED notQ

NextSnapshot ==
    \/ LiveCommit
    \/ LivePrune
    \/ LiveCompact
    \/ LiveSearchInitial
    \/ LiveRetrieveFirst
    \/ LiveRetrieveSecond

(***************************************************************************)
(* feed::parser::parse_rss.  The feed is the sequence of the events the    *)
(* reader returns for it; a text is one of the strings below.              *)
(***************************************************************************)
MaxItems == 2

\* an element with a text: <tag>text</tag>
Child(tag, text) == [tag |-> tag, text |-> text]

\* Url::parse: the URL of a text, if it is one; a URL without a path gets
\* the path "/"
UrlParse(text) ==
    CASE text = "https://example.com/a" -> {"https://example.com/a"}
      [] text = "https://example.com/b" -> {"https://example.com/b"}
      [] text = "https://example.com" -> {"https://example.com/"}
      [] text = "https://example.com/?a=1&b=2" -> {"https://example.com/?a=1&b=2"}
      [] OTHER -> {}

\* DateTime::parse_from_rfc2822(..).with_timezone(&Utc): the instant of a
\* text, in seconds, if it is a date
ParseFromRfc2822(text) ==
    CASE text = "Mon, 30 Oct 2023 08:55:00 GMT" -> {1698656100}
      [] text = "Mon, 30 Oct 2023 10:55:00 +0200" -> {1698656100}
      [] text = "Mon, 30 Oct 2023 08:59:01 GMT" -> {1698656341}
      [] OTHER -> {}

\* BytesText::unescape: fails on "&" that starts no entity
Unescapes(text) == text # "https://example.com/?a=1&b=2" /\ text # "Mon & Tue"

\* what an <item> of the model holds
ItemBodies ==
    LET a == Child("link", "https://example.com/a")
        b == Child("link", "https://example.com/b")
        c == Child("link", "https://example.com")
        d == Child("pubDate", "Mon, 30 Oct 2023 08:55:00 GMT")
        e == Child("pubDate", "Mon, 30 Oct 2023 10:55:00 +0200")
        t == Child("title", "First title")
    IN { <<>>, <<t>>, <<t, a, d>>, <<d, a>>, <<b>>, <<c, e>>, <<a, b>>,
         <<Child("link", "First title")>>, <<a, Child("link", "First title")>>,
         <<d>>, <<a, Child("pubDate", "2023-10-30")>>,
         <<d, Child("lastBuildDate", "2023-10-30"), b>>,
         <<Child("link", "https://example.com/?a=1&b=2")>>,
         <<a, Child("pubDate", "Mon & Tue")>> }

\* what the <channel> holds before its items
ChannelHeads ==
    { <<>>,
      <<Child("title", "Test title"), Child("link", "https://example.com/b"),
        Child("lastBuildDate", "Mon, 30 Oct 2023 08:59:01 GMT")>> }

EmptyFeed == [channel |-> <<>>, items |-> <<>>]

RECURSIVE ChildrenEvents(_)
\* the events of a sequence of elements
ChildrenEvents(children) ==
    IF children = <<>> THEN <<>>
    ELSE << <<"start", Head(children).tag>>, <<"text", Head(children).text>>,
            <<"end", Head(children).tag>> >> \o ChildrenEvents(Tail(children))

RECURSIVE ItemsEvents(_)
ItemsEvents(items) ==
    IF items = <<>> THEN <<>>
    ELSE << <<"start", "item">> >> \o ChildrenEvents(Head(items))
            \o << <<"end", "item">> >> \o ItemsEvents(Tail(items))

\* quick_xml::Reader on the feed: its events up to Eof
Events(feed) ==
    << <<"start", "channel">> >> \o ChildrenEvents(feed.channel)
        \o ItemsEvents(feed.items) \o << <<"end", "channel">> >>

\* reader.read_event_into at the position pos
ReadEventInto(feed, pos) ==
    IF pos <= Len(Events(feed)) THEN Events(feed)[pos] ELSE <<"eof", "">>

DatedUrl(url, last_modified) == [url |-> url, last_modified |-> last_modified]

\* the locals of parse_rss before the loop
NewFeed(feed) ==
    /\ rss_feed = feed
    /\ rss = [pos |-> 1, links |-> <<>>, inside_link |-> FALSE,
              inside_item |-> FALSE, current_link |-> {}, current_date |-> {},
              result |-> None, reader_error |-> FALSE]

\* an <item> that starts with the date of the item before it
StartItemKeepsDate(r) ==
    [r EXCEPT !.pos = @ + 1, !.inside_item = TRUE, !.current_link = {}]

\* Event::Start of "item"
StartItem(r) ==
    [r EXCEPT !.pos = @ + 1, !.inside_item = TRUE,
              !.current_link = {}, !.current_date = {}]

\* one turn of the loop of parse_rss on the event e; next is the event
\* after it
ParseEvent(e, next) ==
    CASE e = <<"start", "link">> -> [rss EXCEPT !.pos = @ + 1, !.inside_link = TRUE]
      [] e = <<"end", "link">> -> [rss EXCEPT !.pos = @ + 1, !.inside_link = FALSE]
      [] e = <<"start", "item">> -> StartItem(rss)
      [] e = <<"end", "item">> ->
            [rss EXCEPT !.pos = @ + 1, !.inside_item = FALSE, !.current_link = {},
                        !.links = @ \o [i \in 1..Cardinality(rss.current_link) |->
                                           DatedUrl(CHOOSE u \in rss.current_link : TRUE,
                                                    rss.current_date)]]
      [] e[1] = "text" /\ rss.inside_item /\ rss.inside_link ->
            IF ~Unescapes(e[2]) THEN [rss EXCEPT !.result = Err]
            ELSE IF UrlParse(e[2]) # {}
                 THEN [rss EXCEPT !.pos = @ + 1, !.current_link = UrlParse(e[2])]
                 ELSE [rss EXCEPT !.pos = @ + 1]
      [] e \in {<<"start", "pubDate">>, <<"start", "lastBuildDate">>} ->
            IF ~rss.inside_item THEN [rss EXCEPT !.pos = @ + 1]
            ELSE IF next[1] # "text" THEN [rss EXCEPT !.pos = @ + 2]
            ELSE IF ~Unescapes(next[2]) THEN [rss EXCEPT !.result = Err]
            ELSE IF ParseFromRfc2822(next[2]) # {}
                 THEN [rss EXCEPT !.pos = @ + 2,
                                  !.current_date = ParseFromRfc2822(next[2])]
                 ELSE [rss EXCEPT !.pos = @ + 2]
      [] e[1] = "eof" -> [rss EXCEPT !.result = Ok(rss.links)]
      [] OTHER -> [rss EXCEPT !.pos = @ + 1]

\* parse_rss: one turn of the loop.  The reader returns the next event, or
\* an error where the feed is no XML; the error ends the loop.
ParseRss ==
    /\ rss.result = None
    /\ \/ rss' = ParseEvent(ReadEventInto(rss_feed, rss.pos),
                            ReadEventInto(rss_feed, rss.pos + 1))
       \/ /\ rss.pos <= Len(Events(rss_feed))
          /\ rss' = [rss EXCEPT !.result = Ok(rss.links), !.reader_error = TRUE]
    /\ UNCHANGED rss_feed
    /\ UNCHANGED notF

NextFeed == ParseRss

(***************************************************************************)
(* WarcFile.  A record of the file is its version line, its header, the    *)
(* lines of its content and whether "\r\n\r\n" follows the content.  A     *)
(* line with a colon is a key and a value, any other line is a text.       *)
(***************************************************************************)
MaxRecords == 4

\* a line "key: value" and a line without a colon
KeyValue(key, value) == [key |-> key, value |-> value]

TextLine(text) == [text |-> text]

\* the record of the file: header holds at most one value per key
Bytes(version, header, content, ending) ==
    [version |-> version, header |-> header, content |-> content, ending |-> ending]

\* the header lines of a record, keys in upper case
Header(warc_type, target_uri, content_length) ==
    [type |-> warc_type, uri |-> target_uri, length |-> content_length]

\* the records of tests::it_works
Warcinfo ==
    Bytes("warc/1.0", Header({"WARCINFO"}, {}, {"25"}),
          <<KeyValue("ISpARToF", "cc-main-2022-05")>>, TRUE)

RequestBytes ==
    Bytes("warc/1.0", Header({"request"}, {"http://0575ls.cn/news-52300.htm"}, {"15"}),
          <<TextLine("body of request")>>, TRUE)

ResponseBytes ==
    Bytes("warc/1.0", Header({"response"}, {}, {"29"}),
          <<TextLine("http-body"), TextLine(""), TextLine("body of response")>>, TRUE)

MetadataBytes ==
    Bytes("warc/1.0", Header({"metadata"}, {}, {"16"}),
          <<KeyValue("fetchTimeMs", "937")>>, TRUE)

\* the records a file of the model is made of
RecordPool ==
    { RequestBytes, ResponseBytes, MetadataBytes,
      [RequestBytes EXCEPT !.header.uri = {}],
      [ResponseBytes EXCEPT !.content = <<TextLine("body of response")>>],
      [MetadataBytes EXCEPT !.content = <<KeyValue("fetchTimeMs", "soon")>>],
      [MetadataBytes EXCEPT !.content = <<KeyValue("fetchTime", "937")>>],
      [RequestBytes EXCEPT !.header.type = {"revisit"}],
      [MetadataBytes EXCEPT !.header.type = {}],
      [RequestBytes EXCEPT !.version = "HTTP/1.1"],
      [ResponseBytes EXCEPT !.header.length = {}],
      [MetadataBytes EXCEPT !.ending = FALSE] }

\* the first record of a file
FirstRecords == {Warcinfo, [Warcinfo EXCEPT !.version = "HTTP/1.1"]}

\* version.to_uppercase().starts_with("WARC/1.")
IsWarcVersion(version) == version \in {"warc/1.0", "WARC/1.0", "WARC/1.1"}

\* str::parse::<usize>: the number of a text, if it is one
ParseUsize(text) ==
    CASE text = "937" -> {937}
      [] text = "15" -> {15}
      [] text = "16" -> {16}
      [] text = "25" -> {25}
      [] text = "29" -> {29}
      [] OTHER -> {}

\* WarcFile::new
NewWarcFile(bytes) ==
    /\ warc_bytes = bytes
    /\ warc = [pos |-> 1, num_reads |-> 0, returned |-> <<>>]

\* WarcFile::next_raw at the position pos: None at the end of the file, an
\* error for a record it cannot read, else the header and the content
NextRaw(bytes, pos) ==
    IF pos > Len(bytes) THEN None
    ELSE IF ~IsWarcVersion(bytes[pos].version) THEN Err
    ELSE IF bytes[pos].header.length = {} THEN Err
    ELSE IF UNION {ParseUsize(l) : l \in bytes[pos].header.length} = {} THEN Err
    ELSE IF ~bytes[pos].ending THEN Err
    ELSE Ok([header |-> bytes[pos].header, content |-> bytes[pos].content])

\* Request::from_raw
RequestFromRaw(record) ==
    IF record.header.uri = {} THEN Err
    ELSE Ok([url |-> CHOOSE u \in record.header.uri : TRUE])

\* Response::from_raw: split_once("\r\n\r\n"), the body is what follows
ResponseFromRaw(record) ==
    LET empty == {k \in 2..Len(record.content) : record.content[k] = TextLine("")}
    IN IF empty = {} THEN Err
       ELSE Ok([body |-> SubSeq(record.content,
                                (CHOOSE k \in empty : \A j \in empty : k <= j) + 1,
                                Len(record.content))])

\* Metadata::from_raw: the first line with the key fetchTimeMs
MetadataFromRaw(record) ==
    LET lines == {k \in 1..Len(record.content) :
                     /\ "key" \in DOMAIN record.content[k]
                     /\ record.content[k].key = "fetchTimeMs"}
    IN IF lines = {} THEN Err
       ELSE LET first == CHOOSE k \in lines : \A j \in lines : k <= j
                value == ParseUsize(record.content[first].value)
            IN IF value = {} THEN Err
               ELSE Ok([fetch_time_ms |-> CHOOSE v \in value : TRUE])

RECURSIVE ForItems(_, _)
\* the loop over the three items of next; acc holds request, response and
\* metadata, each an Option.  The result is what next returns in the loop,
\* or acc when the loop ends.
ForItems(items, acc) ==
    IF items = <<>> THEN [acc |-> acc]
    ELSE LET item == Head(items)
         IN IF item = None THEN None
            ELSE IF item = Err THEN Err
            ELSE IF item.value.header.type = {} THEN ForItems(Tail(items), acc)
            ELSE IF item.value.header.type = {"request"}
                 THEN ForItems(Tail(items),
                               [acc EXCEPT !.request = {RequestFromRaw(item.value)}])
            ELSE IF item.value.header.type = {"response"}
                 THEN ForItems(Tail(items),
                               [acc EXCEPT !.response = {ResponseFromRaw(item.value)}])
            ELSE IF item.value.header.type = {"metadata"}
                 THEN ForItems(Tail(items),
                               [acc EXCEPT !.metadata = {MetadataFromRaw(item.value)}])
            ELSE Err

\* Iterator::next after the first record: three next_raw, the loop, and
\* the record
NextTriple(bytes, pos) ==
    LET items == <<NextRaw(bytes, pos), NextRaw(bytes, pos + 1), NextRaw(bytes, pos + 2)>>
        found == ForItems(items, [request |-> {}, response |-> {}, metadata |-> {}])
    IN IF "acc" \notin DOMAIN found THEN found
       ELSE IF found.acc.request = {} \/ found.acc.response = {} \/ found.acc.metadata = {}
            THEN Err
       ELSE IF Err \in found.acc.request \cup found.acc.response \cup found.acc.metadata
            THEN Err
       ELSE Ok([request |-> (CHOOSE r \in found.acc.request : TRUE).value,
                response |-> (CHOOSE r \in found.acc.response : TRUE).value,
                metadata |-> (CHOOSE r \in found.acc.metadata : TRUE).value])

\* the number of records next_raw has read after n calls from pos
Advance(bytes, pos, n) == IF pos + n > Len(bytes) THEN Len(bytes) + 1 ELSE pos + n

\* <WarcFile as Iterator>::next.  self.next_raw().unwrap().unwrap() panics
\* when the first next_raw returns None or an error.
WarcNext ==
    /\ IF warc.returned = <<>> THEN TRUE
       ELSE warc.returned[Len(warc.returned)].kind \in {"ok", "err"}
    /\ IF warc.num_reads = 0 /\ NextRaw(warc_bytes, warc.pos) \in {None, Err}
       THEN warc' = [warc EXCEPT !.pos = Advance(warc_bytes, warc.pos, 1),
                                 !.returned = Append(@, Panic)]
       ELSE LET first == IF warc.num_reads = 0 THEN warc.pos + 1 ELSE warc.pos
            IN warc' = [pos |-> Advance(warc_bytes, first, 3),
                        num_reads |-> warc.num_reads + 1,
                        returned |-> Append(warc.returned,
                            IF NextTriple(warc_bytes, first) = None
                            THEN [kind |-> "none"]
                            ELSE NextTriple(warc_bytes, first))]
    /\ UNCHANGED warc_bytes
    /\ UNCHANGED notW

NextWarc == WarcNext

(***************************************************************************)
(* Specifications                                                          *)
(***************************************************************************)
IdleCollector == NewCollector(1, CHOOSE cfg \in Configs : cfg.url_penalty = 0)

IdleIndex == OpenIndexes(Closed, Closed)

IdleDht == NewShard({}, 1, Nodes)

IdlePages ==
    NewSearcher(<<>>, 1, TRUE, CHOOSE cfg \in Configs : cfg.url_penalty = 0, 8)

IdleTables == NewTables

IdleLive == NewCluster

IdleImage == NewRetrieval({}, {})

IdleManager == NewManager

IdleDuration == NewInput(<<>>)

\* the cores added to the four above, but the tables
IdleSegments == NewTopDocs({})

\* the cores added last, idle
IdleSnapshot == NewLiveIndex(<<>>)

IdleFeed == NewFeed(EmptyFeed)

IdleWarc == NewWarcFile(<<>>)

IdleLater == IdleSegments /\ IdleSnapshot /\ IdleFeed /\ IdleWarc

IdleButTables == IdleLive /\ IdleImage /\ IdleManager /\ IdleDuration /\ IdleLater

\* the cores added to the four above, idle
IdleOthers == IdleTables /\ IdleButTables

\* the four first cores, idle
IdleFour == IdleCollector /\ IdleIndex /\ IdleDht /\ IdlePages

\* every core before the last ones, idle
IdleEarlier ==
    IdleFour /\ IdleTables /\ IdleLive /\ IdleImage /\ IdleManager /\ IdleDuration

InitCollector ==
    /\ \E n \in 1..MaxTopN, cfg \in Configs : NewCollector(n, cfg)
    /\ IdleIndex
    /\ IdleDht
    /\ IdlePages
    /\ IdleOthers

SpecCollector == InitCollector /\ [][NextCollector]_vars

\* one query on one of the indexes
InitPages ==
    /\ IdleCollector
    /\ IdleIndex
    /\ IdleDht
    /\ \E segs \in Layouts, num_results \in NumResults, de_rank_similar \in BOOLEAN,
          cfg \in Configs, max_docs_considered \in MaxDocsConsidered :
            NewSearcher(segs, num_results, de_rank_similar, cfg, max_docs_considered)
    /\ IdleOthers

SpecPages == InitPages /\ [][NextPages]_vars

\* searches on an index whose stored documents can become unreadable
SpecSearch == InitPages /\ [][NextSearch]_vars

\* one index on a directory that does not exist yet, or on one that holds
\* the stored segment
InitIndex ==
    /\ IdleCollector
    /\ \E meta \in {{}, {1}} : OpenIndexes(Open(meta), Closed)
    /\ IdleDht
    /\ IdlePages
    /\ IdleOthers

SpecIndex == InitIndex /\ [][NextIndex]_vars

\* two indexes; each directory is new or holds a copy of the stored segment
InitMerge ==
    /\ IdleCollector
    /\ \E meta1, meta2 \in {{}, {1}} : OpenIndexes(Open(meta1), Open(meta2))
    /\ IdleDht
    /\ IdlePages
    /\ IdleOthers

SpecMerge == InitMerge /\ [][NextMerge]_vars

\* two tasks issue requests concurrently
InitDht ==
    /\ IdleCollector
    /\ IdleIndex
    /\ \E l \in Nodes : NewShard(Tasks, l, Nodes)
    /\ IdlePages
    /\ IdleOthers

SpecDht == InitDht /\ [][NextDht]_vars

\* proptest_chaos: one task issues the actions one after the other
InitDhtSeq ==
    /\ IdleCollector
    /\ IdleIndex
    /\ \E l \in Nodes : NewShard({"t1"}, l, Nodes)
    /\ IdlePages
    /\ IdleOthers

SpecDhtSeq == InitDhtSeq /\ [][NextDht]_vars

\* test_member_join: the group is initialized with the leader alone; the
\* leader keeps replicating to its members and every member keeps applying
\* what is committed
InitDhtJoin ==
    /\ IdleCollector
    /\ IdleIndex
    /\ \E l \in Nodes : NewShard({"t1"}, l, {l})
    /\ IdlePages
    /\ IdleOthers

\* test_stream: a shard of one node
InitStream ==
    /\ IdleCollector
    /\ IdleIndex
    /\ IdleDht
    /\ IdlePages
    /\ NewTables
    /\ IdleButTables

SpecStream == InitStream /\ [][NextStream]_vars

\* test_simple_set_get: sets, gets and batch_gets
SpecKv == InitStream /\ [][NextKv]_vars

\* test_node_crash: the follower can crash and be restarted
SpecDhtCrash == InitDhtJoin /\ [][NextDhtCrash]_vars

\* the live-index tests: a cluster of two shards, a replica that comes and
\* goes
InitLive ==
    /\ IdleFour /\ IdleTables /\ NewCluster /\ IdleImage /\ IdleManager /\ IdleDuration
    /\ IdleLater

SpecLive == InitLive /\ [][NextLive]_vars

\* the gossip of the cluster and the setup of a replica run on their own
SpecLiveFair ==
    /\ InitLive
    /\ [][NextLive]_vars
    /\ \A r \in Replicas : WF_vars(Forget(r)) /\ WF_vars(BackgroundSetup(r))

\* retrieve_websites on a page and a query
InitImage ==
    /\ IdleFour /\ IdleTables /\ IdleLive /\ IdleManager /\ IdleDuration /\ IdleLater
    /\ \E query \in SUBSET QueryTerms, stored \in {{}} \cup {{i} : i \in StoredImages} :
          NewRetrieval(query, stored)

SpecImage == InitImage /\ [][NextImage]_vars

\* IndexManager::run on an index other threads insert into
InitManager ==
    /\ IdleFour /\ IdleTables /\ IdleLive /\ IdleImage /\ NewManager /\ IdleDuration
    /\ IdleLater

SpecManager == InitManager /\ [][NextManager]_vars

\* the thread of the manager is scheduled and its sleep returns
SpecManagerFair ==
    /\ InitManager
    /\ [][NextManager]_vars
    /\ WF_vars(Iteration)
    /\ WF_vars(Sleep)

\* parse_duration on the strings of the model
InitDuration ==
    /\ IdleFour /\ IdleTables /\ IdleLive /\ IdleImage /\ IdleManager /\ IdleLater
    /\ \E s \in DurationStrings : NewInput(s)

SpecDuration == InitDuration /\ [][NextDuration]_vars

\* into_sorted_vec of a collector that holds up to MaxInserted documents
InitIntoSortedVec ==
    /\ \E n \in 1..MaxTopN, cfg \in Configs, docs \in SUBSET LoopPool :
          /\ Cardinality(docs) <= MaxInserted
          /\ InsertedCollector(n, cfg, docs)
    /\ IdleIndex
    /\ IdleDht
    /\ IdlePages
    /\ IdleOthers

SpecIntoSortedVec == InitIntoSortedVec /\ [][NextIntoSortedVec]_vars

\* the segment collectors of one search, with and without max_docs
InitSegments ==
    /\ IdleEarlier
    /\ IdleSnapshot
    /\ IdleFeed
    /\ IdleWarc
    /\ \E max_docs \in {{}} \cup {{MaxDocsConsideredOf(t, n)} :
                                    t \in 0..MaxTotalDocs, n \in 1..MaxCollectors} :
          NewTopDocs(max_docs)

SpecSegments == InitSegments /\ [][NextSegments]_vars

\* an index opened on a directory with up to four segments of different sizes
InitCompact ==
    /\ IdleCollector
    /\ \E meta \in SUBSET (1..4), sizes \in [1..4 -> 1..MaxStoredDocs] :
          OpenStored(meta, sizes)
    /\ IdleDht
    /\ IdlePages
    /\ IdleOthers

SpecCompact == InitCompact /\ [][NextCompact]_vars

\* a search on a live index that IndexManager::run maintains
InitSnapshot ==
    /\ IdleEarlier
    /\ IdleSegments
    /\ IdleFeed
    /\ IdleWarc
    /\ NewLiveIndex(<<>>)

SpecSnapshot == InitSnapshot /\ [][NextSnapshot]_vars

\* parse_rss on the feeds of the model
InitFeed ==
    /\ IdleEarlier
    /\ IdleSegments
    /\ IdleSnapshot
    /\ IdleWarc
    /\ \E head \in ChannelHeads, n \in 0..MaxItems :
       \E items \in [1..n -> ItemBodies] :
          NewFeed([channel |-> head, items |-> items])

SpecFeed == InitFeed /\ [][NextFeed]_vars

\* a WarcFile on a file of up to MaxRecords records after the first, or on
\* an empty file
InitWarc ==
    /\ IdleEarlier
    /\ IdleSegments
    /\ IdleSnapshot
    /\ IdleFeed
    /\ \/ NewWarcFile(<<>>)
       \/ \E head \in FirstRecords, n \in 0..MaxRecords :
          \E records \in [1..n -> RecordPool] :
             NewWarcFile(<<head>> \o records)

SpecWarc == InitWarc /\ [][NextWarc]_vars

SpecDhtJoin ==
    /\ InitDhtJoin
    /\ [][NextDhtJoin]_vars
    /\ \A n \in Nodes : WF_vars(AppendEntries(n)) /\ WF_vars(Apply(n))

(***************************************************************************)
(* Claims about InvertedIndex                                              *)
(***************************************************************************)

C4_SearchSeesCommittedSnapshot ==
    /\ index[Self].open =>
          /\ DocsOf(index[Self].reader) = committed
          /\ index[Self].pending \cap DocsOf(index[Self].reader) = {}
    /\ searcher # None =>
          /\ DocsOf(Snapshot(searcher)) = searcher.committed
          /\ searcher.acquired \subseteq DocsOf(index[searcher.i].reader)
    /\ outcome.op = "search" =>
          /\ outcome.visible = outcome.committed
          /\ outcome.top_websites \subseteq outcome.committed
          /\ outcome.top_websites \cap index[outcome.i].pending = {}
          /\ outcome.acquired \subseteq DocsOf(index[outcome.i].reader)

\* a search ran on a Searcher handed out before a commit, with documents pending
C4_Witness ==
    /\ outcome.op = "search"
    /\ outcome.committed # outcome.committed_now
    /\ outcome.top_websites # {}
    /\ index[Self].pending # {}

\* C7: merge_into_max_segments(max_n) leaves at most max_n segments and the
\* same documents; the files it removes belong to segments whose documents
\* are in a merged segment; with at most max_n segments it changes nothing.
C7_AtMostMaxSegments ==
    outcome.op = "merge_into_max_segments" =>
        /\ Cardinality(index[outcome.i].meta) <= outcome.max_num_segments
        /\ DocsOf(index[outcome.i].meta) = outcome.docs_before
        /\ DocsOf(index[outcome.i].reader) = outcome.docs_before
        /\ outcome.docs_after = outcome.docs_before
        /\ \A x \in outcome.removed :
              \E y \in index[outcome.i].meta : segDocs[x] \subseteq segDocs[y]
        /\ outcome.removed \cap index[outcome.i].meta = {}
        /\ Cardinality(outcome.before) <= outcome.max_num_segments =>
              /\ index[outcome.i].meta = outcome.before
              /\ index[outcome.i].files = outcome.files_before
              /\ outcome.removed = {}

\* four segments were merged into two
C7_Witness ==
    /\ outcome.op = "merge_into_max_segments"
    /\ Cardinality(outcome.before) > outcome.max_num_segments
    /\ Cardinality(outcome.after) = 2
    /\ outcome.removed # {}

\* C8: after merge(other) the searchable documents are those of both
\* indexes, pending ones included, and they still are after a commit; the
\* segments of other whose id is in self are skipped, every other segment
\* of either index is in the merged index.
C8_MergeIsUnion ==
    /\ outcome.op = "merge" =>
          /\ DocsOf(index[Self].reader) = merged.docs
          /\ outcome.skipped = outcome.segments1 \cap outcome.segments2
          /\ index[Self].meta = outcome.segments1 \cup outcome.segments2
          /\ index[Self].meta \subseteq index[Self].files
    /\ merged # None /\ outcome.op = "commit" =>
          /\ merged.docs \subseteq DocsOf(index[Self].reader)
          /\ DocsOf(index[Self].reader) = committed

\* a merge that committed pending documents and skipped a segment, then a commit
C8_Witness ==
    /\ merged # None
    /\ outcome.op = "commit"
    /\ merged.pending # {}
    /\ merged.skipped # {}
    /\ Cardinality(merged.docs) > 2

\* C9 (as stated): when a file of a segment that merge takes from other is
\* already in the directory of self, merge aborts and renames nothing.
C9_ConflictAborts ==
    outcome.op = "merge" /\ outcome.conflict =>
        outcome.aborted /\ outcome.renamed = {}

(***************************************************************************)
(* Claims about the DHT                                                    *)
(***************************************************************************)

C2_GetEqualsGroundTruth ==
    getResult # None => getResult.res = getResult.expected

\* a follower answered a get for a key that the map holds
C2_Witness ==
    /\ getResult # None
    /\ getResult.node # leader
    /\ getResult.expected # {}
    /\ getResult.res = getResult.expected

(***************************************************************************)
(* Claims about the BucketCollector (checked under SpecCollector)          *)
(***************************************************************************)
ShareNonZero(a, b) ==
    \/ a.site = b.site /\ a.site # 0
    \/ a.url = b.url /\ a.url # 0
    \/ a.url_without_tld = b.url_without_tld /\ a.url_without_tld # 0
    \/ a.title = b.title /\ a.title # 0

SameUrl(a, b) == a # b /\ a.url = b.url /\ a.url # 0

\* C5: into_sorted_vec (either flag) returns at most top_n documents, each of
\* them inserted and none twice, and all inserted documents when at most
\* top_n were inserted.
C5_AtMostTopN ==
    /\ Len(res) <= top_n
    /\ \A i \in 1..Len(res) : res[i] \in inserted
    /\ \A i, j \in 1..Len(res) : i # j => res[i] # res[j]
    /\ (cpc = "done" /\ Cardinality(inserted) <= top_n) => Range(res) = inserted

\* more documents than top_n, one of them deferred as a simhash duplicate
C5_Witness ==
    /\ cpc = "done" /\ de_rank
    /\ Cardinality(inserted) > top_n
    /\ Len(res) = top_n
    /\ \E i \in 1..Len(emitted) : emitted[i].backfill

\* C6 as claimed: with de_rank_similar, of two output documents sharing a
\* non-zero bucket hash the second one's adjusted score (under the counts at
\* its emission) is at most the adjusted score the first one had when emitted.
C6_SecondNotAboveFirst ==
    de_rank =>
        \A i, j \in 1..Len(emitted) :
            (i < j /\ ShareNonZero(res[i], res[j]))
                => RatLeq(emitted[j].adj, emitted[i].key)

\* C6 amended: the same, for a second document that was popped from the heap
\* (not appended from the deferred simhash duplicates).
C6_SecondNotAboveFirstFromHeap ==
    de_rank =>
        \A i, j \in 1..Len(emitted) :
            (i < j /\ ShareNonZero(res[i], res[j]) /\ ~emitted[j].backfill)
                => RatLeq(emitted[j].adj, emitted[i].key)

\* two documents sharing a key, both from the heap, the second one penalised
C6_Witness ==
    /\ de_rank
    /\ \E i, j \in 1..Len(emitted) :
          /\ i < j /\ ShareNonZero(res[i], res[j])
          /\ ~emitted[j].backfill
          /\ emitted[j].adj.d > 1

ResIds == [i \in 1..Len(res) |-> res[i].id]

\* C11 (as stated): the hash 0 is never counted, and a document whose
\* hashes are all 0 is never penalised.
C11_ZeroHashNeverCounted ==
    /\ buckets[0] = 0
    /\ \A j \in 1..Len(emitted) :
          (emitted[j].id = 10 /\ ~emitted[j].backfill) => emitted[j].adj.d = 1

NumEmitted == Cardinality({j \in 1..Len(emitted) : ~emitted[j].backfill})

RECURSIVE CountsAfter(_)
\* the bucket counts after update_counts for the documents of the sequence r
CountsAfter(r) ==
    IF r = <<>>
    THEN [k \in HashKeys |-> 0]
    ELSE UpdateCounts(CountsAfter(SubSeq(r, 1, Len(r) - 1)), r[Len(r)])

\* C13: with de_rank_similar, a popped document whose non-zero simhash is in
\* the table is deferred: it changes no bucket count, and the deferred
\* documents follow all emitted ones, in the order they were popped, as far
\* as top_n leaves room; a document with simhash 0 is never deferred.
\* Without de_rank_similar nothing is deferred.
C13_SimhashDuplicatesDeferred ==
    /\ \A i \in 1..Len(simhash_dups) :
          /\ de_rank
          /\ simhash_dups[i].doc.simhash # 0
          /\ TableContains(simhash, simhash_dups[i].doc.simhash)
          /\ \A j \in 1..Len(res) : j <= NumEmitted => res[j] # simhash_dups[i].doc
    /\ cpc = "done" /\ de_rank =>
          /\ \A j \in 1..Len(emitted) : emitted[j].backfill <=> j > NumEmitted
          /\ \A j \in 1..Len(res) :
                j > NumEmitted => res[j] = simhash_dups[j - NumEmitted].doc
          /\ Len(res) = Min(top_n, NumEmitted + Len(simhash_dups))
          /\ buckets = CountsAfter(SubSeq(res, 1, NumEmitted))
          /\ \A j \in 1..NumEmitted :
                res[j].simhash # 0 =>
                    \A i \in 1..NumEmitted : i # j => res[i].simhash # res[j].simhash

\* two documents were deferred and only the first of them was appended
C13_Witness ==
    /\ cpc = "done" /\ de_rank
    /\ Len(simhash_dups) = 2
    /\ Len(res) = NumEmitted + 1


\* C14: into_sorted_vec(false) returns min(top_n, n) of the n inserted
\* documents, none of the others has a higher raw score than a returned one,
\* and the returned ones are in descending order of raw score, whatever their
\* hashes and simhashes are; no count changes and nothing is deferred.
C14_PlainTopNByRawScore ==
    cpc = "done" /\ ~de_rank =>
        /\ Len(res) = Min(top_n, Cardinality(inserted))
        /\ Range(res) \subseteq inserted
        /\ \A i, j \in 1..Len(res) :
              /\ i < j => res[i].score >= res[j].score
              /\ i # j => res[i] # res[j]
        /\ \A d \in inserted \ Range(res) :
              \A j \in 1..Len(res) : res[j].score >= d.score
        /\ simhash_dups = <<>>
        /\ buckets = [k \in HashKeys |-> 0]

\* three documents with the same simhash, two of them sharing every key,
\* and the best two returned in the order of their raw scores
C14_Witness ==
    /\ cpc = "done" /\ ~de_rank /\ top_n = 2
    /\ inserted = {PoolDoc(7), PoolDoc(9), PoolDoc(13)}
    /\ res[1] = PoolDoc(7)
    /\ Len(res) = 2


\* C15 (as stated): when the loop of into_sorted_vec emits a document, every
\* other document of the heap with the same adjusted score has a lower raw
\* score, or the same raw score and a larger address. All documents of the
\* pool are of one segment, so the order of the addresses is the order of
\* the ids.
C15_TiesByRawScoreThenAddress ==
    [][(cpc = "pop" /\ Len(emitted') > Len(emitted)
            /\ ~emitted'[Len(emitted) + 1].backfill) =>
         LET best == res'[Len(res) + 1]
             key == emitted'[Len(emitted) + 1].key
         IN \A x \in documents :
               (x.doc # best /\ RatEq(x.adjusted_score, key)) =>
                   \/ x.doc.score < best.score
                   \/ x.doc.score = best.score /\ x.doc.id > best.id]_vars


\* C16 (as stated): the vector a collector returns is a function of the set
\* of the inserted documents, of top_n, of the config and of the flag: it is
\* the only vector that any order of insertion of these documents can lead to.
C16_OutputDependsOnSetOnly ==
    cpc = "done" => Collected(inserted, top_n, config, de_rank) = {res}


\* the pages searched so far
Searched == {p \in 0..MaxPage : pages[p] # NotSearched}

\* C17 (as stated): the pages of a query are disjoint, and page p holds the
\* ranks p * num_results .. (p + 1) * num_results - 1 of the full ranking,
\* which is what the search returns for offset 0 and a top_n that takes in
\* every document.
C17_PagesAreSlicesOfFullRanking ==
    LET total == Cardinality(UNION Range(segment_readers))
    IN /\ \A p, q \in Searched : p # q => Range(pages[p]) \cap Range(pages[q]) = {}
       /\ Searched # {} =>
             \E full \in TopDocsOf(segment_readers, ranker, total, 0) :
                \A p \in Searched :
                    pages[p] = SkipTake(full, p * ranker.num_results, ranker.num_results)


\* C18 (as stated): a search whose hits include a document that cannot be
\* loaded returns Ok with the other hits, in their order; it returns no
\* error and does not panic.
C18_BadHitDropped ==
    search.pc = "done" =>
        /\ search.result.kind = "ok"
        /\ search.result.value = SelectSeq(search.hits, LAMBDA w : w \notin unreadable)


RECURSIVE ValueAt(_, _)
\* the value of the key k after the first i entries of the log
ValueAt(k, i) ==
    IF i = 0 THEN {}
    ELSE IF log[i].key = k THEN {log[i].value} ELSE ValueAt(k, i - 1)

\* C20: a node that joined through the leader eventually has applied every
\* entry that was committed when it joined; from then on its state machine
\* holds, for every key, the value of the log up to what it has applied, and
\* a get on it returns the value committed before the join or a later one.
C20_JoinedNodeCatchesUp ==
    /\ \A n \in Nodes : (n \in members) ~> (applied[n] >= joinCommit[n])
    /\ [](\A n \in members :
             applied[n] >= joinCommit[n] =>
                 \A k \in Keys : db[n][k] = ValueAt(k, applied[n]))
    /\ [](getResult # None /\ getResult.node # leader =>
             \E i \in joinCommit[getResult.node]..Len(log) :
                 getResult.res = ValueAt(getResult.key, i))

\* the value was committed before the node joined, and the get on the
\* joined node returned it
C20_Witness ==
    /\ getResult # None
    /\ getResult.node # leader
    /\ joinCommit[getResult.node] >= 1
    /\ getResult.key = "hello"
    /\ getResult.res = ValueAt("hello", joinCommit[getResult.node])
    /\ getResult.res # {}


\* C21: as long as the table of a stream is not written to after the stream
\* was opened, the stream has
\* yielded pairs of that table only and none twice, and when it ends it has
\* yielded every pair of the table, for every batch size.
C21_StreamYieldsTableOnce ==
    (stream # None /\ ~stream.mutated) =>
        /\ Range(stream.yielded) \subseteq PairsOf(tables[stream.table])
        /\ \A i, j \in 1..Len(stream.yielded) :
              i # j => stream.yielded[i] # stream.yielded[j]
        /\ stream.done => Range(stream.yielded) = PairsOf(tables[stream.table])

\* a stream of a table with more pairs than one batch holds has ended, and
\* the other table holds other pairs
C21_Witness ==
    /\ stream # None /\ stream.done /\ ~stream.mutated
    /\ stream.batch_size = 1
    /\ Len(stream.yielded) = 2
    /\ PairsOf(tables[CHOOSE t \in TableNames : t # stream.table])
          \notin {{}, PairsOf(tables[stream.table])}


C22_RestartedNodeHoldsCommitted ==
    /\ \A n \in Nodes :
          (node_state[n] = "restarted" /\ applied[n] >= joinCommit[n]) =>
              \A k \in Keys : db[n][k] = ValueAt(k, applied[n])
    /\ (getResult # None /\ getResult.state = "restarted") =>
          \E i \in joinCommit[getResult.node]..Len(log) :
              getResult.res = ValueAt(getResult.key, i)


(***************************************************************************)
(* Claims about the live index                                             *)
(***************************************************************************)

\* the step in which replica r turns from InSetup to Ready
BecomesReady(r) == li_status[r] = "setup" /\ li_status'[r] = "ready"

\* the step is a search on replica r
SearchStep(r) ==
    /\ li_out' # li_out
    /\ li_out'.op = "search"
    /\ li_out'.replica = r

\* the step is a write of page through replica r
WriteStep(r, page) ==
    /\ li_out' # li_out
    /\ li_out'.op = "index"
    /\ li_out'.replica = r
    /\ li_out'.page = page

DepartedCounted(r) == li_status[r] = "off" /\ li_view[r] = "ready"

ImageTerms(image) == image.title_terms \cup image.description_terms

\* C27 (as stated): the returned page has its stored primary image if some
\* simple term of the query, in lower case, is among the terms of the
\* image, and no primary image otherwise.
C27_ImageKeptIffSomeTermAppears ==
    img_out # None =>
        /\ img_stored = {} => img_out.primary_image = {}
        /\ \A image \in img_stored :
              img_out.primary_image =
                  IF \E term \in img_query :
                        ToAsciiLowercase(term) \in ImageTerms(image)
                      THEN {image}
                      ELSE {}

\* C27 (amended): the returned page has its stored primary image if every
\* simple term of the query, in lower case, is among the terms of the
\* image (so also for a query without simple terms), and no primary image
\* otherwise.
C27_ImageKeptIffEveryTermAppears ==
    img_out # None =>
        /\ img_stored = {} => img_out.primary_image = {}
        /\ \A image \in img_stored :
              img_out.primary_image =
                  IF \A term \in img_query :
                        ToAsciiLowercase(term) \in ImageTerms(image)
                      THEN {image}
                      ELSE {}

\* the query "best Website" on an image described by "website": one term
\* appears, the other does not, and the image is suppressed
C27_Witness ==
    /\ img_out # None
    /\ img_query = {"best", "Website"}
    /\ \E image \in img_stored :
          "website" \in ImageTerms(image) /\ "best" \notin ImageTerms(image)
    /\ img_out.primary_image = {}

\* the step is an iteration of the loop of the index manager
IterationStep == im_phase = "awake" /\ im_phase' = "sleep"

\* C28: an iteration of the loop invokes commit if and only if more than
\* AUTO_COMMIT_INTERVAL has passed since the last commit of the manager (or
\* its start) and the index has inserts; the commit restarts the timer;
\* without a commit, and in every other step, the timer keeps its value.
C28_AutoCommitWhenDueAndInserts ==
    [][/\ IterationStep =>
             /\ "commit" \in im_did' <=>
                   (now - last_commit > AUTO_COMMIT_INTERVAL /\ has_inserts)
             /\ "commit" \in im_did' => (last_commit' = now /\ ~has_inserts')
             /\ "commit" \notin im_did' =>
                   (last_commit' = last_commit /\ has_inserts' = has_inserts)
       /\ ~IterationStep => last_commit' = last_commit]_vars

\* after an earlier commit the interval has passed again, the index has no
\* inserts, and the iteration has neither committed nor restarted the timer
C28_Witness ==
    /\ im_phase = "sleep"
    /\ "commit" \notin im_did
    /\ last_commit > 0
    /\ now - last_commit > AUTO_COMMIT_INTERVAL
    /\ ~has_inserts

\* the characters s are digits only
AllDigits(s) == s # <<>> /\ \A i \in 1..Len(s) : IsNumeric(s[i])

\* the product of the factors of a unit
RECURSIVE Product(_)
Product(factors) ==
    IF factors = <<>> THEN 1 ELSE Head(factors) * Product(Tail(factors))

\* C29 (as stated): a string made of a non-negative integer (one that u64
\* holds) and a unit suffix is parsed to that many units; a string whose
\* number part is no integer, or whose suffix is none of the units, is an
\* error.
C29_ParsesDurations ==
    dur_out # None =>
        LET num_part == TrimEndNonNumeric(dur_in)
            suffix == SubSeq(dur_in, Len(num_part) + 1, Len(dur_in))
        IN  /\ \A u \in Units :
                  (AllDigits(num_part) /\ ParseU64(num_part) # {} /\ suffix = u.suffix) =>
                      \E n \in ParseU64(num_part) :
                          dur_out = DurationOk(IF u.millis
                                                   THEN FromMillis(n)
                                                   ELSE FromSecs(n * Product(u.factors)))
            /\ (\A u \in Units : Trim(suffix) # u.suffix) =>
                  dur_out \in {DurationErr("invalid number"),
                               DurationErr("invalid suffix")}
            /\ (num_part = <<>> \/ \E i \in 1..Len(num_part) :
                                      ~IsNumeric(num_part[i]) /\ num_part[i] # "+") =>
                  dur_out = DurationErr("invalid number")


(***************************************************************************)
(* Claims about BucketCount                                                *)
(***************************************************************************)

\* the documents emitted by the loop so far
Taken == {j \in 1..Len(res) : ~emitted[j].backfill}

\* the number of emitted documents with the hash of doc, axis by axis
TakenSites(doc) == Cardinality({j \in Taken : res[j].site = doc.site})

TakenUrls(doc) == Cardinality({j \in Taken : res[j].url = doc.url})

TakenUrlsWithoutTld(doc) ==
    Cardinality({j \in Taken : res[j].url_without_tld = doc.url_without_tld})

TakenTitles(doc) == Cardinality({j \in Taken : res[j].title = doc.title})

\* C30 (as stated): in the loop of into_sorted_vec, the score adjust_score
\* computes for a document of the heap is raw / (1 + sum over the four axes
\* of penalty * the number of emitted documents with the same hash on that
\* axis), each axis counted by itself.
C30_AxisCountsIndependent ==
    (cpc = "pop" /\ de_rank) =>
        \A x \in documents :
            AdjustScore(buckets, config, x.doc) =
                [n |-> x.doc.score,
                 d |-> 1 + TakenSites(x.doc) * config.site_penalty
                         + TakenUrls(x.doc) * config.url_penalty
                         + TakenUrlsWithoutTld(x.doc) * config.url_without_tld_penalty
                         + TakenTitles(x.doc) * config.title_penalty]


(***************************************************************************)
(* Claims about the loop of into_sorted_vec                                *)
(***************************************************************************)

\* the step emits a document from the heap
EmitStep ==
    /\ cpc = "pop"
    /\ Len(res') > Len(res)
    /\ ~emitted'[Len(res) + 1].backfill

\* C31 (as stated): with de_rank_similar, the score adjust_score gives the
\* document emitted from the heap under the current counts is at least the
\* score it gives every document still in the heap.
C31_EmittedHasGreatestAdjustedScore ==
    [][(EmitStep /\ de_rank) =>
          \A y \in documents :
              y.doc # res'[Len(res) + 1] =>
                  RatLeq(AdjustScore(buckets, config, y.doc),
                         AdjustScore(buckets, config, res'[Len(res) + 1]))]_vars


\* C32: the returned page carries an image only if it is the stored one and
\* every simple term of the query, in lower case, is among the terms of the
\* image; when a term is among neither the title terms nor the description
\* terms the page is returned without image.
C32_ImageOnlyIfEveryTermAppears ==
    img_out # None =>
        /\ img_out.url = "https://www.example.com"
        /\ img_out.primary_image # {} =>
              /\ img_out.primary_image = img_stored
              /\ \A image \in img_stored, term \in img_query :
                    \/ ToAsciiLowercase(term) \in image.title_terms
                    \/ ToAsciiLowercase(term) \in image.description_terms
        /\ (\E image \in img_stored, term \in img_query :
                /\ ToAsciiLowercase(term) \notin image.title_terms
                /\ ToAsciiLowercase(term) \notin image.description_terms)
              => img_out.primary_image = {}

\* the query "best Website" on an image titled "best" and described by
\* "website": the page is returned with its image
C32_Witness ==
    /\ img_out # None
    /\ img_query = {"best", "Website"}
    /\ \E image \in img_stored :
          "best" \in image.title_terms /\ "website" \in image.description_terms
    /\ img_out.primary_image = img_stored


\* the documents of every segment of the index searched
AllDocuments == UNION Range(segment_readers)

\* no segment collector reaches max_docs: every matching document is inserted
NoCutOff ==
    \A i \in DOMAIN segment_readers :
        Cardinality(segment_readers[i])
            <= ranker.max_docs_considered \div Len(segment_readers)

\* C33 (as stated): when no segment collector is cut off by max_docs, the
\* page a search returns from the segment collectors and merge_fruits is a
\* page that one BucketCollector of size top_n + offset returns for all the
\* documents, with the same config and the same de_rank_similar flag.
C33_SegmentsRefineOneCollector ==
    NoCutOff =>
        \A p \in Searched :
            \E docs \in Collected(AllDocuments,
                                  ranker.num_results + p * ranker.num_results,
                                  ranker.collector_config, ranker.de_rank_similar) :
                pages[p] = SkipTake(docs, p * ranker.num_results, ranker.num_results)


\* the documents the segment collectors insert
CollectedAcrossSegments ==
    UNION {Collect(segment_readers[i],
                   ranker.max_docs_considered \div Len(segment_readers)) :
              i \in DOMAIN segment_readers}

\* C34 (as stated): with de_rank_similar = false the page a search returns
\* holds the ranks offset .. offset + top_n - 1 by raw score of the documents
\* collected across the segments: no document outside the page and the ranks
\* before it has a higher raw score than a document of the page.
C34_FlagOffIsTopNByRawScore ==
    ~ranker.de_rank_similar =>
        \A p \in Searched :
            LET n == ranker.num_results
                ahead == {d \in CollectedAcrossSegments :
                             \E e \in Range(pages[p]) : d.score > e.score}
            IN /\ Range(pages[p]) \subseteq CollectedAcrossSegments
               /\ Len(pages[p]) = Min(n, Max(0, Cardinality(CollectedAcrossSegments) - p * n))
               /\ Cardinality(ahead \ Range(pages[p])) <= p * n
               /\ \A i, j \in 1..Len(pages[p]) :
                     i < j => pages[p][i].score >= pages[p][j].score


RECURSIVE SumOver(_, _)
\* the sum of f(c) over the collectors of a sequence
SumOver(f(_), cs) ==
    IF cs = <<>> THEN 0 ELSE f(Head(cs)) + SumOver(f, Tail(cs))

NumDocsTaken(c) == c.num_docs_taken

Scored(c) == c.scored

\* C35: a segment collector with max_docs never takes more than max_docs
\* documents and its bucket collector holds exactly the documents taken; a
\* collect call on a collector that has taken max_docs documents changes
\* neither num_docs_taken nor the bucket collector and scores nothing; all
\* the collectors of a search together score at most total_docs documents,
\* and none when there are more segments than total_docs.
C35_MaxDocsBoundsCollection ==
    /\ [](\A m \in seg_top :
            /\ \A i \in DOMAIN seg_collectors :
                  /\ seg_collectors[i].max_docs = {m.total_docs \div m.segments}
                  /\ seg_collectors[i].num_docs_taken <= m.total_docs \div m.segments
                  /\ Cardinality(seg_collectors[i].bucket_collector)
                        = seg_collectors[i].num_docs_taken
            /\ SumOver(Scored, seg_collectors) <= m.total_docs
            /\ SumOver(NumDocsTaken, seg_collectors) <= m.total_docs
            /\ m.segments > m.total_docs =>
                  \A i \in DOMAIN seg_collectors :
                      seg_collectors[i].bucket_collector = {})
    /\ [][\A i \in DOMAIN seg_collectors :
            (/\ seg_collectors'[i].calls > seg_collectors[i].calls
             /\ \E m \in seg_collectors[i].max_docs :
                   seg_collectors[i].num_docs_taken = m) =>
                /\ seg_collectors'[i].num_docs_taken = seg_collectors[i].num_docs_taken
                /\ seg_collectors'[i].bucket_collector = seg_collectors[i].bucket_collector
                /\ seg_collectors'[i].scored = seg_collectors[i].scored]_vars

\* three segments share four documents: every collector has taken its one
\* document and has been offered more
C35_Witness ==
    /\ seg_top = {MaxDocsConsideredOf(4, 3)}
    /\ Len(seg_collectors) = 3
    /\ \A i \in 1..3 :
          /\ seg_collectors[i].num_docs_taken = 1
          /\ seg_collectors[i].calls = 3


\* the candidates as the loop of merge_into_max_segments fills them when it
\* takes the segments in the order given
CandidatesOf(order, max_num_segments) ==
    AssignSegments(order, [b \in 1..NumCandidates(max_num_segments) |->
                              SegmentMergeCandidate(0, <<>>)])

\* the documents of the segments that precede order[j] and are in the
\* candidate cand: no document is in two segments, so their number is the
\* sum of num_docs
DocsBefore(order, j, cand) ==
    UNION {segDocs[order[k]] : k \in {k \in 1..(j - 1) : order[k] \in Range(cand.segments)}}

\* C36: when merge_into_max_segments finds more than max_n segments, there
\* is an order of the segments by descending num_docs for which the
\* ceil(max_n / 2) candidates hold every segment exactly once, every segment
\* went to a candidate whose total was the smallest when the segment was
\* taken, the index afterwards has one segment per non-empty candidate with
\* the documents of that candidate, and no file but those of the segments
\* merged away has gone.
C36_GreedySmallestBucket ==
    (/\ outcome.op = "merge_into_max_segments"
     /\ Cardinality(outcome.before) > outcome.max_num_segments) =>
        \E order \in SortedByNumDocs(outcome.before) :
            LET cands == CandidatesOf(order, outcome.max_num_segments)
                filled == {b \in 1..Len(cands) : cands[b].segments # <<>>}
            IN /\ 2 * Len(cands) >= outcome.max_num_segments
               /\ 2 * (Len(cands) - 1) < outcome.max_num_segments
               /\ \A j \in 1..Len(order) :
                     /\ Cardinality({b \in 1..Len(cands) :
                           order[j] \in Range(cands[b].segments)}) = 1
                     /\ j > 1 => NumDocs(order[j - 1]) >= NumDocs(order[j])
                     /\ \A b, c \in 1..Len(cands) :
                           order[j] \in Range(cands[b].segments) =>
                               Cardinality(DocsBefore(order, j, cands[b]))
                                  <= Cardinality(DocsBefore(order, j, cands[c]))
               /\ \A b \in 1..Len(cands) :
                     /\ Len(cands[b].segments) = Cardinality(Range(cands[b].segments))
                     /\ cands[b].num_docs = Cardinality(DocsOf(Range(cands[b].segments)))
               /\ Cardinality(outcome.after) = Cardinality(filled)
               /\ index[outcome.i].meta = outcome.after
               /\ {segDocs[y] : y \in outcome.after}
                     = {DocsOf(Range(cands[b].segments)) : b \in filled}
               /\ outcome.files_before \ index[outcome.i].files \subseteq outcome.before
               /\ outcome.after \subseteq index[outcome.i].files

\* segments of 1, 2, 3 and 1 documents went to two candidates: the largest
\* with one of the smallest, the second with the other
C36_Witness ==
    /\ outcome.op = "merge_into_max_segments"
    /\ outcome.max_num_segments = 3
    /\ outcome.before = {1, 2, 3, 4}
    /\ NumDocs(1) = 1 /\ NumDocs(2) = 2 /\ NumDocs(3) = 3 /\ NumDocs(4) = 1
    /\ {segDocs[y] : y \in outcome.after}
          = {segDocs[3] \cup segDocs[1], segDocs[2] \cup segDocs[4]}
    /\ outcome.files_before \ index[Self].files = {1, 2, 3, 4}


\* C37 (as stated): the pointers of search_initial are resolved by both
\* retrieve_websites calls as in the snapshot search_initial ranked: after
\* the first call zip_eq finds as many pages as pointers and every page is
\* the document its pointer addressed, and the search returns these pages,
\* whatever was committed, pruned or compacted in between.
C37_PointersResolveInSnapshot ==
    LET ranked == ResolveSnapshot(live_search.snapshot, live_search.pointers)
    IN /\ live_search.pc = "zipped" => live_search.websites = ranked
       /\ live_search.pc = "done" => live_search.result = Ok(ranked)


\* the longest loop iteration: the body and the sleep
LoopIteration == EVENT_LOOP_INTERVAL + 1

ItemUrls(body) ==
    UNION {UrlParse(body[k].text) : k \in {k \in 1..Len(body) : body[k].tag = "link"}}

\* the dates of the pubDate and lastBuildDate elements of an item
ItemDates(body) ==
    UNION {ParseFromRfc2822(body[k].text) :
              k \in {k \in 1..Len(body) : body[k].tag \in {"pubDate", "lastBuildDate"}}}

\* the items with a <link> whose text is a URL
Linked(items) == SelectSeq(items, LAMBDA body : ItemUrls(body) # {})

\* links[i] is a URL of the i-th item with a URL, with a date of that item
\* or with none if the item has none
MatchesItems(links, items) ==
    \A i \in 1..Len(links) :
        /\ i <= Len(Linked(items))
        /\ links[i].url \in ItemUrls(Linked(items)[i])
        /\ links[i].last_modified \subseteq ItemDates(Linked(items)[i])
        /\ links[i].last_modified = {} <=> ItemDates(Linked(items)[i]) = {}

BadEscape(items) ==
    \E i \in 1..Len(items) : \E k \in 1..Len(items[i]) :
        /\ items[i][k].tag \in {"link", "pubDate", "lastBuildDate"}
        /\ ~Unescapes(items[i][k].text)

WellFormed(p) == NextRaw(warc_bytes, p) \notin {None, Err}

\* the record at p is a request with WARC-Target-URI, a response with the
\* separator of header and body, or a metadata record with a fetchTimeMs
\* that is a number
IsRequest(p) ==
    /\ warc_bytes[p].header.type = {"request"}
    /\ warc_bytes[p].header.uri # {}

IsResponse(p) ==
    /\ warc_bytes[p].header.type = {"response"}
    /\ \E k \in 2..Len(warc_bytes[p].content) : warc_bytes[p].content[k] = TextLine("")

IsMetadata(p) ==
    /\ warc_bytes[p].header.type = {"metadata"}
    /\ \E k \in 1..Len(warc_bytes[p].content) :
          /\ "key" \in DOMAIN warc_bytes[p].content[k]
          /\ warc_bytes[p].content[k].key = "fetchTimeMs"
          /\ ParseUsize(warc_bytes[p].content[k].value) # {}

\* the three records from p are read and are one request, one response and
\* one metadata record, in any order
GoodTriple(p) ==
    /\ p + 2 <= Len(warc_bytes)
    /\ \A q \in p..(p + 2) : WellFormed(q)
    /\ \E a, b, c \in p..(p + 2) : IsRequest(a) /\ IsResponse(b) /\ IsMetadata(c)

\* C40 (as stated): no call of next panics; the k-th call reads the three
\* records that follow the first record and the triples before; it returns
\* Ok exactly when the three are a request, a response and a metadata
\* record as above, Err for every other triple, and None or, for a record
\* it cannot use, Err when fewer than three records are left.
C40_TriplesAfterWarcinfo ==
    \A k \in 1..Len(warc.returned) :
        LET p == 2 + 3 * (k - 1)
            r == warc.returned[k]
        IN /\ r # Panic
           /\ r.kind = "ok" <=> GoodTriple(p)
           /\ p + 2 <= Len(warc_bytes) => r.kind \in {"ok", "err"}
           /\ (p + 2 > Len(warc_bytes) /\ r.kind # "none") =>
                 /\ r.kind = "err"
                 /\ \E q \in p..Len(warc_bytes) :
                       \/ ~WellFormed(q)
                       \/ warc_bytes[q].header.type
                             \notin {{}, {"request"}, {"response"}, {"metadata"}}

====
